---- MODULE Spec2Model ----
(***************************************************************************)
(* A model of the ramemu RAM machine: the execution engine of ram.rs (the  *)
(* Ram struct, step/run/next and eval), the register store of              *)
(* registers.rs, the program lookup of program.rs and the line parser of   *)
(* parser.rs.                                                              *)
(*                                                                         *)
(* Integers are scaled: the engine's i64 is modelled as a signed integer   *)
(* of IntBits bits and usize as an unsigned integer of IntBits bits, so    *)
(* that the extreme values and the overflow cases are reachable.           *)
(* Texts (input lines, output, source lines) are sequences of one-         *)
(* character strings.                                                      *)
(***************************************************************************)
EXTENDS Integers, Sequences, FiniteSets, TLC

\* ------------------------------------------------------------------ bounds

\* Width in bits of the scaled i64 / usize / isize.
IntBits == 4
\* Cap on the number of step() invocations in one behaviour.
MaxSteps == 6
\* Longest program of the exhaustively generated family.
MaxProgLen == 2
\* Longest source text, in lines.
MaxSourceLines == 3
\* Largest register index the calls on a register store of its own use.
MaxRegIndex == 2
\* Calls of the public eval() on one engine.
MaxEvals == 2
\* Longest instruction list given to Program::from.
MaxInstrs == 3

\* ------------------------------------------------------------------ integers

I64Min == -(2^(IntBits - 1))
I64Max == 2^(IntBits - 1) - 1
UsizeMax == 2^IntBits - 1
I64 == I64Min..I64Max
Usize == 0..UsizeMax

\* Two's complement wrap-around of an out-of-range result (release build).
Wrap(x) == ((x - I64Min) % (2^IntBits)) + I64Min

Abs(x) == IF x < 0 THEN -x ELSE x

\* Rust's `/` on integers truncates toward zero.
TruncDiv(a, b) ==
    IF (a < 0) = (b < 0) THEN Abs(a) \div Abs(b) ELSE -(Abs(a) \div Abs(b))

\* i64::checked_div as an Option: None when the divisor is zero or the
\* quotient overflows (MIN / -1).
checked_div_zero_is_zero(a, b) ==
    IF a = I64Min /\ b = -1
    THEN [some |-> FALSE, val |-> 0]
    ELSE [some |-> TRUE, val |-> IF b = 0 THEN 0 ELSE TruncDiv(a, b)]

checked_div(a, b) ==
    IF b = 0 \/ (a = I64Min /\ b = -1)
    THEN [some |-> FALSE, val |-> 0]
    ELSE [some |-> TRUE, val |-> TruncDiv(a, b)]

\* ------------------------------------------------------------------ texts

Digits == <<"0", "1", "2", "3", "4", "5", "6", "7", "8", "9">>
Whitespace == {" ", "\t", "\n", "\r"}

DigitValue(c) == CHOOSE d \in 0..9 : Digits[d + 1] = c
IsDigit(c) == \E d \in 0..9 : Digits[d + 1] = c

RECURSIVE NatToDecimal(_)
NatToDecimal(n) ==
    IF n < 10 THEN <<Digits[n + 1]>>
    ELSE NatToDecimal(n \div 10) \o <<Digits[(n % 10) + 1]>>

\* The text `{value}` of an i64: a minus sign for negatives, then the digits.
ToDecimal(v) == IF v < 0 THEN <<"-">> \o NatToDecimal(-v) ELSE NatToDecimal(v)

RECURSIVE TrimStart(_)
TrimStart(s) ==
    IF s /= <<>> /\ Head(s) \in Whitespace THEN TrimStart(Tail(s)) ELSE s

RECURSIVE TrimEnd(_)
TrimEnd(s) ==
    IF s /= <<>> /\ s[Len(s)] \in Whitespace
    THEN TrimEnd(SubSeq(s, 1, Len(s) - 1))
    ELSE s

\* str::trim
Trim(s) == TrimEnd(TrimStart(s))

RECURSIVE DigitsToNat(_, _)
\* Accumulates decimal digits; -1 when a character is not a digit.  The
\* accumulator saturates above every representable magnitude.
DigitsToNat(s, acc) ==
    IF s = <<>> THEN acc
    ELSE IF ~IsDigit(Head(s)) THEN -1
    ELSE LET a == acc * 10 + DigitValue(Head(s))
         IN DigitsToNat(Tail(s), IF a > 2 * UsizeMax THEN 2 * UsizeMax ELSE a)

ParseI64_drops_sign(s) ==
    LET signed == s /= <<>> /\ Head(s) \in {"-", "+"}
        body == IF signed THEN Tail(s) ELSE s
        mag == IF body = <<>> THEN -1 ELSE DigitsToNat(body, 0)
    IN IF mag < 0 \/ mag \notin I64
       THEN [ok |-> FALSE, val |-> 0]
       ELSE [ok |-> TRUE, val |-> mag]

\* A parse that reads the text without digits as zero.
ParseI64_empty_is_zero(s) ==
    LET neg == s /= <<>> /\ Head(s) = "-"
        signed == s /= <<>> /\ Head(s) \in {"-", "+"}
        body == IF signed THEN Tail(s) ELSE s
        mag == DigitsToNat(body, 0)
        val == IF neg THEN -mag ELSE mag
    IN IF mag < 0 \/ val \notin I64
       THEN [ok |-> FALSE, val |-> 0]
       ELSE [ok |-> TRUE, val |-> val]

\* str::parse::<i64>: an optional sign, at least one digit, nothing else, and
\* the value in range.
ParseI64(s) ==
    LET neg == s /= <<>> /\ Head(s) = "-"
        signed == s /= <<>> /\ Head(s) \in {"-", "+"}
        body == IF signed THEN Tail(s) ELSE s
        mag == IF body = <<>> THEN -1 ELSE DigitsToNat(body, 0)
        val == IF neg THEN -mag ELSE mag
    IN IF mag < 0 \/ val \notin I64
       THEN [ok |-> FALSE, val |-> 0]
       ELSE [ok |-> TRUE, val |-> val]

\* ------------------------------------------------------------------ data model

\* stmt.rs: Value::Pure(isize), RegisterValue::Direct(usize) / Indirect(usize),
\* a LabelId for the jumps, nothing for Halt.  One record shape for all.
Pure(n) == [kind |-> "Pure", n |-> n]
Direct(i) == [kind |-> "Direct", n |-> i]
Indirect(i) == [kind |-> "Indirect", n |-> i]
LabelArg(l) == [kind |-> "Label", n |-> l]
NoArg == [kind |-> "None", n |-> 0]

\* Stmt::new(op, line)
Stmt(op, arg, ln) == [op |-> op, arg |-> arg, line |-> ln]

JumpOps == {"Jump", "JumpIfZero", "JumpGreatherZero"}

\* errors/ram.rs: InterpretError { kind, line }; InvalidInput carries a text.
InterpretError(kind, ln) == [kind |-> kind, line |-> ln, text |-> <<>>]
InvalidInputError_drops_text(txt, ln) ==
    [kind |-> "InvalidInput", line |-> ln, text |-> <<>>]

InvalidInputError(txt, ln) == [kind |-> "InvalidInput", line |-> ln, text |-> txt]
\* Option::None of the engine's error field.
NoError == [kind |-> "None", line |-> 0, text |-> <<>>]

RuntimeErrorKinds ==
    {"SegmentationFault", "UnknownLabel", "InvalidInput", "InvalidLiteral",
     "DivisionByZero", "IOError", "Halted"}

\* ------------------------------------------------------------------ registers

\* Number of registers Ram::new fills with zero.
InitialRegisters == 100

\* Registers<T>: a sparse map; a missing key reads as T::default().
RegGet(regs, index) == IF index \in DOMAIN regs THEN regs[index] ELSE 0

RegSet_clears_others(regs, index, value) == [j \in {index} |-> value]

RegSet(regs, index, value) ==
    [j \in (DOMAIN regs) \cup {index} |-> IF j = index THEN value ELSE regs[j]]

\* Registers::from([0; N])
RegistersFromZeros(n) == [i \in 0..(n - 1) |-> 0]

\* ------------------------------------------------------------------ program

\* Program::get: bounds-checked lookup of a 0-based address.
ProgramGet(prog, address) ==
    IF address \in 0..(Len(prog.instructions) - 1)
    THEN [some |-> TRUE, stmt |-> prog.instructions[address + 1]]
    ELSE [some |-> FALSE, stmt |-> Stmt("Halt", NoArg, 0)]

decode_label_unbound_is_zero(prog, label) ==
    IF label \in DOMAIN prog.labels
    THEN [some |-> TRUE, addr |-> prog.labels[label]]
    ELSE [some |-> TRUE, addr |-> 0]

\* Program::decode_label: the address bound to a label id, if any.
decode_label(prog, label) ==
    IF label \in DOMAIN prog.labels
    THEN [some |-> TRUE, addr |-> prog.labels[label]]
    ELSE [some |-> FALSE, addr |-> 0]

\* ------------------------------------------------------------------ parser: texts

LowerLetters ==
    <<"a", "b", "c", "d", "e", "f", "g", "h", "i", "j", "k", "l", "m", "n",
      "o", "p", "q", "r", "s", "t", "u", "v", "w", "x", "y", "z">>
UpperLetters ==
    <<"A", "B", "C", "D", "E", "F", "G", "H", "I", "J", "K", "L", "M", "N",
      "O", "P", "Q", "R", "S", "T", "U", "V", "W", "X", "Y", "Z">>

IsLower(c) == \E k \in 1..26 : LowerLetters[k] = c
IsUpper(c) == \E k \in 1..26 : UpperLetters[k] = c

\* char::is_ascii_alphabetic / is_ascii_alphanumeric
IsAsciiAlphabetic(c) == IsLower(c) \/ IsUpper(c)
IsAsciiAlphanumeric(c) == IsAsciiAlphabetic(c) \/ IsDigit(c)

\* str::to_uppercase on the characters of the model.
ToUpperChar(c) ==
    IF IsLower(c) THEN UpperLetters[CHOOSE k \in 1..26 : LowerLetters[k] = c] ELSE c
to_uppercase(s) == [k \in 1..Len(s) |-> ToUpperChar(s[k])]

\* Position of the first occurrence of c in s, 0 when there is none.
FirstIndex(s, c) ==
    IF \E k \in 1..Len(s) : s[k] = c
    THEN CHOOSE k \in 1..Len(s) : s[k] = c /\ \A j \in 1..(k - 1) : s[j] /= c
    ELSE 0

\* str::split_once(c)
split_once(s, c) ==
    LET k == FirstIndex(s, c)
    IN IF k = 0 THEN [some |-> FALSE, before |-> s, after |-> <<>>]
       ELSE [some |-> TRUE, before |-> SubSeq(s, 1, k - 1),
             after |-> SubSeq(s, k + 1, Len(s))]

\* s.split(c).next(): the text before the first c, all of s without one.
split_first(s, c) ==
    LET k == FirstIndex(s, c)
    IN IF k = 0 THEN s ELSE SubSeq(s, 1, k - 1)

RECURSIVE split_whitespace(_)
\* str::split_whitespace: the maximal runs of non-whitespace characters.
split_whitespace(s) ==
    LET t == TrimStart(s)
        stops == {k \in 1..Len(t) : t[k] \in Whitespace}
        end == IF stops = {} THEN Len(t) + 1
               ELSE CHOOSE k \in stops : \A j \in stops : k <= j
    IN IF t = <<>> THEN <<>>
       ELSE <<SubSeq(t, 1, end - 1)>> \o split_whitespace(SubSeq(t, end, Len(t)))

\* str::parse::<usize>: an optional plus sign, at least one digit, nothing
\* else, and the value in range.
ParseUsize(s) ==
    LET body == IF s /= <<>> /\ Head(s) = "+" THEN Tail(s) ELSE s
        mag == IF body = <<>> THEN -1 ELSE DigitsToNat(body, 0)
    IN IF mag < 0 \/ mag \notin Usize
       THEN [ok |-> FALSE, val |-> 0]
       ELSE [ok |-> TRUE, val |-> mag]

\* str::parse::<isize>; isize has the width of i64.
ParseIsize(s) == ParseI64(s)

\* is_valid_label: an ASCII letter or underscore first, then ASCII letters,
\* digits and underscores only.
is_valid_label(label) ==
    /\ label /= <<>>
    /\ IsAsciiAlphabetic(Head(label)) \/ Head(label) = "_"
    /\ \A k \in 1..Len(label) : IsAsciiAlphanumeric(label[k]) \/ label[k] = "_"

\* parse_label: the label before the first colon of the line, and the rest.
parse_label(source) ==
    LET sp == split_once(source, ":")
    IN IF ~sp.some THEN [ok |-> TRUE, some |-> FALSE, label |-> <<>>, tail |-> source]
       ELSE IF is_valid_label(sp.before)
       THEN [ok |-> TRUE, some |-> TRUE, label |-> sp.before, tail |-> sp.after]
       ELSE [ok |-> FALSE, some |-> FALSE, label |-> <<>>, tail |-> sp.after]

\* ------------------------------------------------------------------ parser: one line

\* errors/parser.rs: ParseErrorKind; detail is the opcode of UnsupportedOpcode
\* or the InvalidArgument of ArgumentIsNotValid.
ParseErrorKind(kind, detail) == [kind |-> kind, detail |-> detail]
NoParseError == ParseErrorKind("None", <<>>)
pure_argument_not_allowed ==
    ParseErrorKind("ArgumentIsNotValid", <<"PureArgumentIsNotAllowed">>)
not_valid_argument ==
    ParseErrorKind("ArgumentIsNotValid", <<"ArgumentIsNotValid">>)
argument_value_must_be_numeric ==
    ParseErrorKind("ArgumentIsNotValid", <<"ArgumentValueMustBeNumberic">>)

\* An allocation that gives a new name the id 0 whatever the table holds.
EntryOrInsert_always_zero(ids, name) ==
    IF name \in DOMAIN ids THEN ids
    ELSE [n \in (DOMAIN ids) \cup {name} |-> IF n = name THEN 0 ELSE ids[n]]

\* label_ids.entry(name).or_insert(LabelId(label_ids.len()))
EntryOrInsert(ids, name) ==
    IF name \in DOMAIN ids THEN ids
    ELSE [n \in (DOMAIN ids) \cup {name} |->
            IF n = name THEN Cardinality(DOMAIN ids) ELSE ids[n]]

\* The mnemonics of parse_line's match, by arm.
ValueMnemonics ==
    {<<"L", "O", "A", "D">>,
     <<"A", "D", "D">>,
     <<"S", "U", "B">>,
     <<"M", "U", "L", "T">>,
     <<"M", "U", "L">>,
     <<"D", "I", "V">>,
     <<"W", "R", "I", "T", "E">>,
     <<"O", "U", "T", "P", "U", "T">>}
LabelMnemonics ==
    {<<"J", "U", "M", "P">>,
     <<"J", "M", "P">>,
     <<"J", "Z">>,
     <<"J", "Z", "E", "R", "O">>,
     <<"J", "G", "Z">>,
     <<"J", "G", "T", "Z">>}
RegisterMnemonics ==
    {<<"S", "T", "O", "R", "E">>,
     <<"I", "N", "P", "U", "T">>,
     <<"R", "E", "A", "D">>}
HaltMnemonic == <<"H", "A", "L", "T">>

\* The opcode each mnemonic stands for (the final match of parse_with_value,
\* parse_with_label_arg and parse_with_register).
OpOfMnemonic(opcode) ==
    CASE opcode = <<"L", "O", "A", "D">> -> "Load"
      [] opcode \in {<<"O", "U", "T", "P", "U", "T">>, <<"W", "R", "I", "T", "E">>} -> "Output"
      [] opcode = <<"A", "D", "D">> -> "Add"
      [] opcode = <<"S", "U", "B">> -> "Sub"
      [] opcode \in {<<"M", "U", "L">>, <<"M", "U", "L", "T">>} -> "Mult"
      [] opcode = <<"D", "I", "V">> -> "Div"
      [] opcode \in {<<"J", "U", "M", "P">>, <<"J", "M", "P">>} -> "Jump"
      [] opcode \in {<<"J", "Z">>, <<"J", "Z", "E", "R", "O">>} -> "JumpIfZero"
      [] opcode \in {<<"J", "G", "Z">>, <<"J", "G", "T", "Z">>} -> "JumpGreatherZero"
      [] opcode = <<"S", "T", "O", "R", "E">> -> "Store"
      [] opcode \in {<<"I", "N", "P", "U", "T">>, <<"R", "E", "A", "D">>} -> "Input"

\* Result of parsing an operand: the operand or the error.
ArgOk(arg) == [ok |-> TRUE, arg |-> arg, err |-> NoParseError]
ArgErr(err) == [ok |-> FALSE, arg |-> NoArg, err |-> err]

\* parse_with_value reading the immediate as an unsigned number.
parse_with_value_unsigned_immediate(tail) ==
    IF tail /= <<>> /\ Head(tail) = "="
    THEN LET n == ParseUsize(Tail(tail))
         IN IF n.ok THEN ArgOk(Pure(n.val)) ELSE ArgErr(argument_value_must_be_numeric)
    ELSE IF tail /= <<>> /\ Head(tail) = "*"
    THEN LET n == ParseUsize(Tail(tail))
         IN IF n.ok THEN ArgOk(Indirect(n.val))
            ELSE ArgErr(argument_value_must_be_numeric)
    ELSE LET n == ParseUsize(tail)
         IN IF n.ok THEN ArgOk(Direct(n.val)) ELSE ArgErr(not_valid_argument)

\* The operand of parse_with_value: =N, *N or N.
parse_with_value(tail) ==
    IF tail /= <<>> /\ Head(tail) = "="
    THEN LET n == ParseIsize(Tail(tail))
         IN IF n.ok THEN ArgOk(Pure(n.val)) ELSE ArgErr(argument_value_must_be_numeric)
    ELSE IF tail /= <<>> /\ Head(tail) = "*"
    THEN LET n == ParseUsize(Tail(tail))
         IN IF n.ok THEN ArgOk(Indirect(n.val))
            ELSE ArgErr(argument_value_must_be_numeric)
    ELSE LET n == ParseUsize(tail)
         IN IF n.ok THEN ArgOk(Direct(n.val)) ELSE ArgErr(not_valid_argument)

\* parse_with_register taking an immediate as parse_with_value does.
parse_with_register_accepts_pure(tail) ==
    IF tail /= <<>> /\ Head(tail) = "*"
    THEN LET n == ParseUsize(Tail(tail))
         IN IF n.ok THEN ArgOk(Indirect(n.val))
            ELSE ArgErr(argument_value_must_be_numeric)
    ELSE LET n == ParseUsize(tail)
         IN IF n.ok THEN ArgOk(Direct(n.val))
            ELSE IF tail /= <<>> /\ Head(tail) = "=" /\ ParseIsize(Tail(tail)).ok
            THEN ArgOk(Pure(ParseIsize(Tail(tail)).val))
            ELSE ArgErr(not_valid_argument)

\* The operand of parse_with_register: *N or N.
parse_with_register(tail) ==
    IF tail /= <<>> /\ Head(tail) = "*"
    THEN LET n == ParseUsize(Tail(tail))
         IN IF n.ok THEN ArgOk(Indirect(n.val))
            ELSE ArgErr(argument_value_must_be_numeric)
    ELSE LET n == ParseUsize(tail)
         IN IF n.ok THEN ArgOk(Direct(n.val))
            ELSE IF tail /= <<>> /\ Head(tail) = "="
            THEN ArgErr(pure_argument_not_allowed)
            ELSE ArgErr(not_valid_argument)

\* parse_with_label_arg giving every reference a LabelId of its own.
parse_with_label_arg_fresh_id(tail, ids) ==
    IF is_valid_label(tail)
    THEN [ok |-> TRUE, arg |-> LabelArg(Cardinality(DOMAIN ids)),
          err |-> NoParseError, label_ids |-> EntryOrInsert(ids, tail)]
    ELSE [ok |-> FALSE, arg |-> NoArg,
          err |-> ParseErrorKind("LabelIsNotValid", <<>>), label_ids |-> ids]

\* The operand of parse_with_label_arg: a valid label name, given the id the
\* table holds for it or the next free one.  Returns the table as well.
parse_with_label_arg(tail, ids) ==
    IF is_valid_label(tail)
    THEN [ok |-> TRUE, arg |-> LabelArg(EntryOrInsert(ids, tail)[tail]),
          err |-> NoParseError, label_ids |-> EntryOrInsert(ids, tail)]
    ELSE [ok |-> FALSE, arg |-> NoArg,
          err |-> ParseErrorKind("LabelIsNotValid", <<>>), label_ids |-> ids]

\* Result<ParsedLine, ParseErrorKind> of parse_line, with the label table
\* as the call leaves it.
LineOk(hasOp, op, arg, hasLabel, label, ids) ==
    [ok |-> TRUE, err |-> NoParseError, hasOp |-> hasOp, op |-> op, arg |-> arg,
     hasLabel |-> hasLabel, label |-> label, label_ids |-> ids]
LineErr(err, ids) ==
    [ok |-> FALSE, err |-> err, hasOp |-> FALSE, op |-> "Halt", arg |-> NoArg,
     hasLabel |-> FALSE, label |-> 0, label_ids |-> ids]

\* The end of parse_line: the instruction with the line's label, or the
\* error of the operand.
FinishLine(a, op, hasLabel, label_id, ids) ==
    IF a.ok THEN LineOk(TRUE, op, a.arg, hasLabel, label_id, ids)
    ELSE LineErr(a.err, ids)

\* parse_line's match on the upper-cased mnemonic; facts are the words of
\* the line, one or two of them.
ParseOpcode(opcode, facts, hasLabel, label_id, ids) ==
    IF opcode = HaltMnemonic
    THEN LineOk(TRUE, "Halt", NoArg, hasLabel, label_id, ids)
    ELSE IF opcode \notin ValueMnemonics \cup LabelMnemonics \cup RegisterMnemonics
    THEN LineErr(ParseErrorKind("UnsupportedOpcode", opcode), ids)
    ELSE IF Len(facts) < 2
    THEN LineErr(ParseErrorKind("ArgumentIsRequired", <<>>), ids)
    ELSE IF opcode \in ValueMnemonics
    THEN FinishLine(parse_with_value(facts[2]), OpOfMnemonic(opcode),
                    hasLabel, label_id, ids)
    ELSE IF opcode \in LabelMnemonics
    THEN FinishLine(parse_with_label_arg(facts[2], ids), OpOfMnemonic(opcode),
                    hasLabel, label_id, parse_with_label_arg(facts[2], ids).label_ids)
    ELSE FinishLine(parse_with_register(facts[2]), OpOfMnemonic(opcode),
                    hasLabel, label_id, ids)

\* parse_line looking at the mnemonic before it counts the words.
ParseFacts_opcode_first(facts, hasLabel, label_id, ids) ==
    IF Len(facts) = 0 THEN LineOk(FALSE, "Halt", NoArg, hasLabel, label_id, ids)
    ELSE IF to_uppercase(facts[1]) \notin
               ValueMnemonics \cup LabelMnemonics \cup RegisterMnemonics \cup {HaltMnemonic}
    THEN LineErr(ParseErrorKind("UnsupportedOpcode", to_uppercase(facts[1])), ids)
    ELSE IF Len(facts) > 2 THEN LineErr(ParseErrorKind("UnsupportedSyntax", <<>>), ids)
    ELSE ParseOpcode(to_uppercase(facts[1]), facts, hasLabel, label_id, ids)

\* parse_line after its label: the words before the comment, none, one or
\* two of them.
ParseFacts(facts, hasLabel, label_id, ids) ==
    IF Len(facts) = 0 THEN LineOk(FALSE, "Halt", NoArg, hasLabel, label_id, ids)
    ELSE IF Len(facts) > 2 THEN LineErr(ParseErrorKind("UnsupportedSyntax", <<>>), ids)
    ELSE ParseOpcode(to_uppercase(facts[1]), facts, hasLabel, label_id, ids)

\* parse_line on the result of parse_label: the label gets the id the table
\* holds for it or the next free one.
ParseLabelled(lab, ids) ==
    IF ~lab.ok THEN LineErr(ParseErrorKind("LabelIsNotValid", <<>>), ids)
    ELSE IF lab.some
    THEN ParseFacts(split_whitespace(split_first(lab.tail, "#")), TRUE,
                    EntryOrInsert(ids, lab.label)[lab.label],
                    EntryOrInsert(ids, lab.label))
    ELSE ParseFacts(split_whitespace(split_first(lab.tail, "#")), FALSE, 0, ids)

\* parse_line
parse_line(src, ids) == ParseLabelled(parse_label(Trim(src)), ids)

\* ------------------------------------------------------------------ parser: a source

RECURSIVE lines(_)
\* str::lines: the text between line feeds, a carriage return before the
\* line feed dropped, no empty line after the last line feed.
lines(s) ==
    LET k == FirstIndex(s, "\n")
        text == IF k = 0 THEN s ELSE SubSeq(s, 1, k - 1)
        stripped == IF k /= 0 /\ text /= <<>> /\ text[Len(text)] = "\r"
                    THEN SubSeq(text, 1, Len(text) - 1) ELSE text
    IN IF s = <<>> THEN <<>>
       ELSE IF k = 0 THEN <<s>>
       ELSE <<stripped>> \o lines(SubSeq(s, k + 1, Len(s)))

\* An insertion that keeps the value a key already has.
MapInsert_keeps_first(map, key, value) ==
    [x \in (DOMAIN map) \cup {key} |-> IF x \in DOMAIN map THEN map[x] ELSE value]

\* HashMap::insert
MapInsert(map, key, value) ==
    [x \in (DOMAIN map) \cup {key} |-> IF x = key THEN value ELSE map[x]]

EmptyMap == [x \in {} |-> 0]
EmptyProgram == [instructions |-> <<>>, labels |-> EmptyMap]

\* The locals of parse before its loop.
ParseStart ==
    [label_to_address |-> EmptyMap, errors |-> <<>>, instructions |-> <<>>,
     label_ids |-> EmptyMap]

\* parse stopping at its first error: later errors are not collected.
ParseIterationEnd_first_error_only(st, r, ln) ==
    IF ~r.ok
    THEN [st EXCEPT !.errors = IF @ = <<>> THEN <<[kind |-> r.err, line |-> ln]>> ELSE @,
                    !.label_ids = r.label_ids]
    ELSE [st EXCEPT
            !.instructions = IF r.hasOp THEN Append(@, Stmt(r.op, r.arg, ln)) ELSE @,
            !.label_to_address =
                IF r.hasLabel THEN MapInsert(@, r.label, Len(st.instructions)) ELSE @,
            !.label_ids = r.label_ids]

\* parse taking the label's address after the line's instruction is pushed.
ParseIterationEnd_address_after_push(st, r, ln) ==
    IF ~r.ok
    THEN [st EXCEPT !.errors = Append(@, [kind |-> r.err, line |-> ln]),
                    !.label_ids = r.label_ids]
    ELSE [st EXCEPT
            !.instructions = IF r.hasOp THEN Append(@, Stmt(r.op, r.arg, ln)) ELSE @,
            !.label_to_address =
                IF r.hasLabel
                THEN MapInsert(@, r.label,
                               Len(st.instructions) + (IF r.hasOp THEN 1 ELSE 0))
                ELSE @,
            !.label_ids = r.label_ids]

\* The body of parse's loop after parse_line returned r for line ln.
ParseIterationEnd(st, r, ln) ==
    IF ~r.ok
    THEN [st EXCEPT !.errors = Append(@, [kind |-> r.err, line |-> ln]),
                    !.label_ids = r.label_ids]
    ELSE [st EXCEPT
            !.instructions = IF r.hasOp THEN Append(@, Stmt(r.op, r.arg, ln)) ELSE @,
            !.label_to_address =
                IF r.hasLabel THEN MapInsert(@, r.label, Len(st.instructions)) ELSE @,
            !.label_ids = r.label_ids]

\* One iteration of parse's loop, on the line numbered ln.
ParseIteration(st, text, ln) ==
    ParseIterationEnd(st, parse_line(text, st.label_ids), ln)

RECURSIVE ParseLoop(_, _, _)
\* parse's loop over the numbered lines, from line ln on.
ParseLoop(st, ls, ln) ==
    IF ln > Len(ls) THEN st
    ELSE ParseLoop(ParseIteration(st, ls[ln], ln), ls, ln + 1)

\* The end of parse: Err with every error of the source, or Ok with the
\* program made of the instructions and the label addresses.
ParseResult(st) ==
    IF st.errors /= <<>>
    THEN [res |-> "Err", errors |-> st.errors, program |-> EmptyProgram]
    ELSE [res |-> "Ok", errors |-> <<>>,
          program |-> [instructions |-> st.instructions,
                       labels |-> st.label_to_address]]

\* parser::parse
parse(src) == ParseResult(ParseLoop(ParseStart, lines(src), 1))

\* ------------------------------------------------------------------ engine state

VARIABLES
    program,    \* Ram.program: [instructions, labels]
    registers,  \* Ram.registers
    pc,         \* Ram.pc, a 0-based code address
    line,       \* Ram.line
    halt,       \* Ram.halt
    error,      \* Ram.error (NoError for None)
    input,      \* the lines the reader has not delivered yet
    output,     \* the characters the writer has accepted
    panicked,   \* the thread driving the engine has panicked
    mode,       \* "unbuilt" before Ram::new, then "idle", or "run" while a
                \* run() call is in its loop; "store" for a register store
                \* of its own
    nsteps,     \* number of step() invocations so far
    stepRes,    \* outcome of the most recent step() invocation
    cause,      \* what halted the engine: "running", "Halt" or "error"
    ret,        \* the most recent call of the public API and what it returned
    source,     \* the source text handed to the parser
    parsed,     \* what parser::parse returned for it
    lastSet,    \* per index, the value of the most recent Registers::set
    nevals      \* number of eval() calls from outside so far

engineVars == <<program, registers, pc, line, halt, error, input, output, panicked>>
historyVars == <<nsteps, stepRes, cause, nevals>>
parserVars == <<source, parsed>>
vars == <<program, registers, pc, line, halt, error, input, output, panicked,
          mode, nsteps, stepRes, cause, ret, source, parsed, lastSet, nevals>>

\* ------------------------------------------------------------------ operand resolution

OkVal(v) == [ok |-> TRUE, val |-> v, err |-> NoError]
ErrVal(kind, ln) == [ok |-> FALSE, val |-> 0, err |-> InterpretError(kind, ln)]

\* Ram::first / Ram::set_first: register 0 is the accumulator.
first == RegGet(registers, 0)
set_first(value) == RegSet(registers, 0, value)

RECURSIVE Chase(_, _, _)
\* The loop of Ram::get: k times, replace the index by the content of the
\* register it names, which must convert to usize.
Chase(k, index, ln) ==
    IF k = 0 THEN OkVal(index)
    ELSE LET v == RegGet(registers, index)
         IN IF v \notin Usize THEN ErrVal("SegmentationFault", ln)
            ELSE Chase(k - 1, v, ln)

\* Ram::get::<N>: N = 0 is the index itself as an i64, N = 1 the register,
\* N = 2 the register named by the register.
get(N, index, ln) ==
    IF N = 0
    THEN IF index \in I64 THEN OkVal(index) ELSE ErrVal("InvalidLiteral", ln)
    ELSE LET c == Chase(N - 1, index, ln)
         IN IF c.ok THEN OkVal(RegGet(registers, c.val)) ELSE c

get_with_value_indirect_as_direct(value, ln) ==
    CASE value.kind = "Pure" ->
            IF value.n \in I64 THEN OkVal(value.n) ELSE ErrVal("InvalidLiteral", ln)
      [] value.kind = "Direct" -> get(1, value.n, ln)
      [] value.kind = "Indirect" -> get(1, value.n, ln)

\* Ram::get_with_value
get_with_value(value, ln) ==
    CASE value.kind = "Pure" ->
            IF value.n \in I64 THEN OkVal(value.n) ELSE ErrVal("InvalidLiteral", ln)
      [] value.kind = "Direct" -> get(1, value.n, ln)
      [] value.kind = "Indirect" -> get(2, value.n, ln)

get_with_register_indirect_as_direct(value, ln) ==
    CASE value.kind = "Direct" -> get(0, value.n, ln)
      [] value.kind = "Indirect" -> get(0, value.n, ln)

\* Ram::get_with_register
get_with_register(value, ln) ==
    CASE value.kind = "Direct" -> get(0, value.n, ln)
      [] value.kind = "Indirect" -> get(1, value.n, ln)

\* get_with_register(value)?.try_into::<usize>(), as Store and Input use it.
dest_index(value, ln) ==
    LET r == get_with_register(value, ln)
    IN IF ~r.ok THEN r
       ELSE IF r.val \notin Usize THEN ErrVal("SegmentationFault", ln)
       ELSE r

\* ------------------------------------------------------------------ eval

\* What one evaluation leaves behind: res is "Ok" (next_pc is the Ok value),
\* "Err" (err is the error) or "Panic" (an arithmetic overflow in a build
\* with overflow checks).  The other fields are the engine's fields and the
\* streams after the evaluation.
Outcome(res, npc, err, regs, h, ln, inp, out) ==
    [res |-> res, next_pc |-> npc, err |-> err, registers |-> regs,
     halt |-> h, line |-> ln, input |-> inp, output |-> out]

OkOutcome(npc, regs, h, ln, inp, out) ==
    Outcome("Ok", npc, NoError, regs, h, ln, inp, out)

\* An error return of eval: `?` leaves before any register is assigned.
ErrOutcome(err, ln, inp, out) ==
    Outcome("Err", pc, err, registers, halt, ln, inp, out)

\* `a + b`, `a - b`, `a * b` on i64 with the exact result x: in range it is
\* the result; out of range the build decides (wrap-around without overflow
\* checks, a panic with them).
Arith(x, npc, ln) ==
    IF x \in I64
    THEN {OkOutcome(npc, set_first(x), halt, ln, input, output)}
    ELSE {OkOutcome(npc, set_first(Wrap(x)), halt, ln, input, output),
          Outcome("Panic", pc, NoError, registers, halt, ln, input, output)}

JumpTaken_gz_includes_zero(op) ==
    CASE op = "Jump" -> TRUE
      [] op = "JumpIfZero" -> first = 0
      [] op = "JumpGreatherZero" -> first >= 0

\* Every jump decoding its label, whatever the accumulator holds.
JumpTaken_always(op) == op \in JumpOps

\* The three jump arms: whether the jump is taken.
JumpTaken(op) ==
    CASE op = "Jump" -> TRUE
      [] op = "JumpIfZero" -> first = 0
      [] op = "JumpGreatherZero" -> first > 0

WriteOutcomes_appends_newline(text) ==
    {[ok |-> TRUE, output |-> output \o text \o <<"\n">>]}
    \cup {[ok |-> FALSE, output |-> output \o SubSeq(text, 1, k)] :
            k \in 0..(Len(text) - 1)}

\* write!(writer, "{value}"): the writer accepts the whole text, or fails
\* after accepting a proper prefix of it.
WriteOutcomes(text) ==
    {[ok |-> TRUE, output |-> output \o text]}
    \cup {[ok |-> FALSE, output |-> output \o SubSeq(text, 1, k)] :
            k \in 0..(Len(text) - 1)}

\* reader.read_line(&mut input): the next line (the empty text at end of
\* input), or a failure of the reader, which may have consumed the line.
ReadOutcomes ==
    IF input = <<>>
    THEN {[ok |-> TRUE, text |-> <<>>, input |-> input],
          [ok |-> FALSE, text |-> <<>>, input |-> input]}
    ELSE {[ok |-> TRUE, text |-> Head(input), input |-> Tail(input)],
          [ok |-> FALSE, text |-> <<>>, input |-> input],
          [ok |-> FALSE, text |-> <<>>, input |-> Tail(input)]}

\* Ram::eval: the set of outcomes of evaluating stmt in the current state.
eval(stmt) ==
    LET ln == stmt.line
        next_pc == pc + 1
        op == stmt.op
    IN
    CASE op = "Load" ->
            LET v == get_with_value(stmt.arg, ln)
            IN IF v.ok
               THEN {OkOutcome(next_pc, set_first(v.val), halt, ln, input, output)}
               ELSE {ErrOutcome(v.err, ln, input, output)}
      [] op = "Store" ->
            LET i == dest_index(stmt.arg, ln)
            IN IF i.ok
               THEN {OkOutcome(next_pc, RegSet(registers, i.val, first), halt, ln,
                               input, output)}
               ELSE {ErrOutcome(i.err, ln, input, output)}
      [] op = "Add" ->
            LET v == get_with_value(stmt.arg, ln)
            IN IF v.ok THEN Arith(first + v.val, next_pc, ln)
               ELSE {ErrOutcome(v.err, ln, input, output)}
      [] op = "Sub" ->
            LET v == get_with_value(stmt.arg, ln)
            IN IF v.ok THEN Arith(first - v.val, next_pc, ln)
               ELSE {ErrOutcome(v.err, ln, input, output)}
      [] op = "Mult" ->
            LET v == get_with_value(stmt.arg, ln)
            IN IF v.ok THEN Arith(first * v.val, next_pc, ln)
               ELSE {ErrOutcome(v.err, ln, input, output)}
      [] op = "Div" ->
            LET v == get_with_value(stmt.arg, ln)
                q == checked_div(first, IF v.ok THEN v.val ELSE 1)
            IN IF ~v.ok THEN {ErrOutcome(v.err, ln, input, output)}
               ELSE IF ~q.some
               THEN {ErrOutcome(InterpretError("DivisionByZero", ln), ln, input, output)}
               ELSE {OkOutcome(next_pc, set_first(q.val), halt, ln, input, output)}
      [] op \in JumpOps ->
            LET target == decode_label(program, stmt.arg.n)
            IN IF ~JumpTaken(op)
               THEN {OkOutcome(next_pc, registers, halt, ln, input, output)}
               ELSE IF ~target.some
               THEN {ErrOutcome(InterpretError("UnknownLabel", ln), ln, input, output)}
               ELSE {OkOutcome(target.addr, registers, halt, ln, input, output)}
      [] op = "Output" ->
            LET v == get_with_value(stmt.arg, ln)
            IN IF ~v.ok THEN {ErrOutcome(v.err, ln, input, output)}
               ELSE {IF w.ok
                     THEN OkOutcome(next_pc, registers, halt, ln, input, w.output)
                     ELSE ErrOutcome(InterpretError("IOError", ln), ln, input, w.output)
                     : w \in WriteOutcomes(ToDecimal(v.val))}
      [] op = "Input" ->
            {IF ~r.ok
             THEN ErrOutcome(InterpretError("IOError", ln), ln, r.input, output)
             ELSE LET i == dest_index(stmt.arg, ln)
                      n == ParseI64(Trim(r.text))
                  IN IF ~i.ok THEN ErrOutcome(i.err, ln, r.input, output)
                     ELSE IF ~n.ok
                     THEN ErrOutcome(InvalidInputError(Trim(r.text), ln), ln,
                                     r.input, output)
                     ELSE OkOutcome(next_pc, RegSet(registers, i.val, n.val), halt,
                                    ln, r.input, output)
             : r \in ReadOutcomes}
      [] op = "Halt" ->
            {OkOutcome(next_pc, registers, TRUE, ln, input, output)}

eval_current_no_halt_guard ==
    LET fetched == ProgramGet(program, pc)
    IN IF ~fetched.some
       THEN {Outcome("Err", pc, InterpretError("SegmentationFault", line),
                     registers, halt, line, input, output)}
       ELSE eval(fetched.stmt)

eval_current_segfault_line_zero ==
    IF halt
    THEN {Outcome("Err", pc, InterpretError("Halted", line), registers, halt, line,
                  input, output)}
    ELSE LET fetched == ProgramGet(program, pc)
         IN IF ~fetched.some
            THEN {Outcome("Err", pc, InterpretError("SegmentationFault", 0),
                          registers, halt, line, input, output)}
            ELSE eval(fetched.stmt)

\* eval_current for which the end of the program is no error: the engine
\* stays where it is.
eval_current_off_end_is_ok ==
    IF halt
    THEN {Outcome("Err", pc, InterpretError("Halted", line), registers, halt, line,
                  input, output)}
    ELSE LET fetched == ProgramGet(program, pc)
         IN IF ~fetched.some
            THEN {OkOutcome(pc, registers, halt, line, input, output)}
            ELSE eval(fetched.stmt)

\* Ram::eval_current: the halted guard, the fetch and the evaluation.
eval_current ==
    IF halt
    THEN {Outcome("Err", pc, InterpretError("Halted", line), registers, halt, line,
                  input, output)}
    ELSE LET fetched == ProgramGet(program, pc)
         IN IF ~fetched.some
            THEN {Outcome("Err", pc, InterpretError("SegmentationFault", line),
                          registers, halt, line, input, output)}
            ELSE eval(fetched.stmt)

\* ------------------------------------------------------------------ step, run, next

\* Variants of step that differ in what an Ok and an Err leave in pc and halt.
StepVariant(o, okPc, okHalt, errPc, errHalt) ==
    /\ registers' = o.registers
    /\ line' = o.line
    /\ input' = o.input
    /\ output' = o.output
    /\ CASE o.res = "Ok" ->
              pc' = okPc /\ halt' = okHalt /\ error' = error
         [] o.res = "Err" ->
              pc' = errPc /\ halt' = errHalt /\ error' = o.err
         [] o.res = "Panic" ->
              pc' = pc /\ halt' = o.halt /\ error' = error
    /\ panicked' = (o.res = "Panic")
    /\ UNCHANGED program

step_ok_keeps_pc(o) == StepVariant(o, pc, o.halt, pc, TRUE)
step_err_keeps_running(o) == StepVariant(o, o.next_pc, o.halt, pc, halt)
step_ok_ignores_halt(o) == StepVariant(o, o.next_pc, halt, pc, TRUE)
step_err_advances_pc(o) == StepVariant(o, o.next_pc, o.halt, pc + 1, TRUE)
step_ok_pc_plus_one(o) == StepVariant(o, pc + 1, o.halt, pc, TRUE)

\* Ram::step after eval_current returned o: Ok stores the next pc, Err
\* records the error and halts.  A panic unwinds out of step.
step(o) ==
    /\ registers' = o.registers
    /\ line' = o.line
    /\ input' = o.input
    /\ output' = o.output
    /\ CASE o.res = "Ok" ->
              pc' = o.next_pc /\ halt' = o.halt /\ error' = error
         [] o.res = "Err" ->
              pc' = pc /\ halt' = TRUE /\ error' = o.err
         [] o.res = "Panic" ->
              pc' = pc /\ halt' = o.halt /\ error' = error
    /\ panicked' = (o.res = "Panic")
    /\ UNCHANGED program

\* History of the step() invocations: their number, the last outcome, and
\* what first halted the engine.
Observe(o) ==
    /\ nsteps' = nsteps + 1
    /\ UNCHANGED nevals
    /\ stepRes' = [res |-> o.res, err |-> o.err]
    /\ cause' = IF cause /= "running" THEN cause
                ELSE IF o.res = "Err" THEN "error"
                ELSE IF o.res = "Ok" /\ o.halt THEN "Halt"
                ELSE cause

NoCall == [call |-> "none", res |-> "none", err |-> NoError, from |-> 0]

\* No call of the parser yet.
NotParsed == [res |-> "none", errors |-> <<>>, program |-> EmptyProgram]

\* A call of step() from outside.
StepCall ==
    /\ mode = "idle" /\ ~panicked /\ nsteps < MaxSteps
    /\ \E o \in eval_current :
          /\ step(o)
          /\ Observe(o)
          /\ ret' = [call |-> "step", res |-> o.res, err |-> o.err, from |-> nsteps]
    /\ UNCHANGED <<mode, parserVars, lastSet>>

\* A call of run(): enters the loop `while !self.halt`.
RunCall ==
    /\ mode = "idle" /\ ~panicked
    /\ mode' = "run"
    /\ ret' = [call |-> "run", res |-> "pending", err |-> NoError, from |-> nsteps]
    /\ UNCHANGED <<engineVars, historyVars, parserVars, lastSet>>

RunStep_no_halt_test ==
    /\ mode = "run" /\ ~panicked /\ nsteps < MaxSteps
    /\ UNCHANGED <<parserVars, lastSet>>
    /\ \E o \in eval_current :
          /\ step(o)
          /\ Observe(o)
          /\ CASE o.res = "Ok" -> UNCHANGED <<mode, ret>>
               [] o.res = "Err" ->
                    mode' = "idle" /\ ret' = [ret EXCEPT !.res = "Err", !.err = o.err]
               [] o.res = "Panic" ->
                    mode' = "idle" /\ ret' = [ret EXCEPT !.res = "Panic"]

\* One iteration of run()'s loop: `self.step()?`.
RunStep ==
    /\ mode = "run" /\ ~panicked /\ ~halt /\ nsteps < MaxSteps
    /\ UNCHANGED <<parserVars, lastSet>>
    /\ \E o \in eval_current :
          /\ step(o)
          /\ Observe(o)
          /\ CASE o.res = "Ok" -> UNCHANGED <<mode, ret>>
               [] o.res = "Err" ->
                    mode' = "idle" /\ ret' = [ret EXCEPT !.res = "Err", !.err = o.err]
               [] o.res = "Panic" ->
                    mode' = "idle" /\ ret' = [ret EXCEPT !.res = "Panic"]

\* run() returning the recorded error when its loop ends on a halted engine
\* that has one.
RunReturn_reports_error ==
    /\ mode = "run" /\ ~panicked /\ halt
    /\ mode' = "idle"
    /\ ret' = IF error = NoError THEN [ret EXCEPT !.res = "Ok"]
              ELSE [ret EXCEPT !.res = "Err", !.err = error]
    /\ UNCHANGED <<engineVars, historyVars, parserVars, lastSet>>

\* run()'s loop ends because halt is set: Ok(()).
RunReturn ==
    /\ mode = "run" /\ ~panicked /\ halt
    /\ mode' = "idle"
    /\ ret' = [ret EXCEPT !.res = "Ok"]
    /\ UNCHANGED <<engineVars, historyVars, parserVars, lastSet>>

\* RamState::from(&Ram): the snapshot of an engine.
RamState(prog, regs, counter, ln, h, err) ==
    [program |-> prog, registers |-> regs, pc |-> counter, line |-> ln,
     halt |-> h, error |-> err]

\* The item of a call of next that yields none.
NoSnapshot == RamState(EmptyProgram, EmptyMap, 0, 0, FALSE, NoError)

\* Iterator::next with the snapshot taken after the step or before it.
NextVariant(after) ==
    /\ mode = "idle" /\ ~panicked /\ nsteps < MaxSteps
    /\ \E o \in eval_current :
          /\ step(o)
          /\ Observe(o)
          /\ ret' = [call |-> "next",
                     res |-> IF o.res = "Panic" THEN "Panic"
                             ELSE IF o.res = "Ok" /\ ~o.halt THEN "Some"
                             ELSE "None",
                     state |-> IF o.res = "Ok" /\ ~o.halt
                               THEN IF after
                                    THEN RamState(program', registers', pc', line',
                                                  halt', error')
                                    ELSE RamState(program, registers, pc, line,
                                                  halt, error)
                               ELSE NoSnapshot,
                     err |-> NoError, from |-> nsteps]
    /\ UNCHANGED <<mode, parserVars, lastSet>>

NextCall_snapshot_before_step == NextVariant(FALSE)

\* Iterator::next: a step whose error is dropped; Some(snapshot of the engine
\* after the step) when the step succeeded and did not halt, None otherwise.
NextCall == NextVariant(TRUE)

\* ------------------------------------------------------------------ programs and inputs

\* Source lines of the statements: one statement per line, or a blank line
\* before each.
Consecutive == 1
Spaced == 2

\* Program::from(instructions, labels), the k-th statement on line
\* spacing * k.
ProgramFrom(ops, labels, spacing) ==
    [instructions |-> [k \in 1..Len(ops) |-> Stmt(ops[k][1], ops[k][2], spacing * k)],
     labels |-> labels]

NoLabels == [l \in {} |-> 0]

\* The instructions the generated programs are made of.  Label 0 is bound
\* to address 0 and label 1 to address 1; label 2 is bound nowhere.
Alphabet ==
    {<<"Load", Pure(2)>>, <<"Load", Pure(-1)>>, <<"Load", Direct(1)>>,
     <<"Load", Indirect(1)>>, <<"Store", Direct(1)>>, <<"Store", Indirect(1)>>,
     <<"Store", Direct(UsizeMax)>>, <<"Add", Pure(I64Max)>>, <<"Sub", Pure(1)>>,
     <<"Mult", Pure(3)>>, <<"Div", Pure(0)>>, <<"Div", Direct(1)>>,
     <<"Jump", LabelArg(0)>>, <<"Jump", LabelArg(2)>>,
     <<"JumpIfZero", LabelArg(1)>>, <<"JumpGreatherZero", LabelArg(2)>>,
     <<"Output", Direct(0)>>, <<"Input", Direct(1)>>, <<"Input", Indirect(1)>>,
     <<"Halt", NoArg>>}

GeneratedLabels == [l \in {0, 1} |-> l]

GeneratedPrograms ==
    {ProgramFrom(ops, GeneratedLabels, Spaced) :
        ops \in UNION {[1..n -> Alphabet] : n \in 0..MaxProgLen}}

\* Load(a) then Div(b) for every a and b of the integer type.
LoadDivPrograms ==
    {ProgramFrom(<<<<"Load", Pure(a)>>, <<"Div", Pure(b)>>, <<"Halt", NoArg>>>>,
                 NoLabels, Consecutive) : a \in I64, b \in I64}

\* load =2; add =2; output 0; halt, followed by an instruction that must
\* never run.
EndToEndProgram ==
    ProgramFrom(<<<<"Load", Pure(2)>>, <<"Add", Pure(2)>>, <<"Output", Direct(0)>>,
                  <<"Halt", NoArg>>, <<"Output", Direct(0)>>>>, NoLabels, Spaced)

\* get_test_program of ram.rs, the end-to-end scenario, the indirection
\* scenario, the input round trip, a countdown loop, negative indices, the
\* smallest integer and an indirect store.
CuratedPrograms ==
    {ProgramFrom(<<<<"Load", Pure(2)>>, <<"Add", Pure(2)>>, <<"Output", Pure(4)>>,
                   <<"Halt", NoArg>>>>, NoLabels, Consecutive),
     EndToEndProgram,
     ProgramFrom(<<<<"Load", Pure(7)>>, <<"Store", Direct(5)>>, <<"Load", Pure(5)>>,
                   <<"Store", Direct(2)>>, <<"Load", Indirect(2)>>>>,
                 NoLabels, Consecutive),
     ProgramFrom(<<<<"Input", Direct(1)>>, <<"Load", Direct(1)>>,
                   <<"Output", Direct(0)>>, <<"Halt", NoArg>>>>, NoLabels, Consecutive),
     ProgramFrom(<<<<"Load", Pure(2)>>, <<"Sub", Pure(1)>>,
                   <<"JumpGreatherZero", LabelArg(0)>>, <<"Halt", NoArg>>>>,
                 [l \in {0} |-> 1], Spaced),
     ProgramFrom(<<<<"Load", Pure(-1)>>, <<"Store", Direct(1)>>,
                   <<"Store", Indirect(1)>>>>, NoLabels, Consecutive),
     ProgramFrom(<<<<"Load", Pure(-1)>>, <<"Store", Direct(1)>>,
                   <<"Output", Indirect(1)>>>>, NoLabels, Consecutive),
     ProgramFrom(<<<<"Load", Pure(-1)>>, <<"Store", Direct(1)>>,
                   <<"Input", Indirect(1)>>>>, NoLabels, Consecutive),
     ProgramFrom(<<<<"Load", Pure(I64Min)>>, <<"Output", Direct(0)>>,
                   <<"Halt", NoArg>>>>, NoLabels, Consecutive),
     ProgramFrom(<<<<"Load", Pure(3)>>, <<"Store", Direct(1)>>, <<"Load", Pure(5)>>,
                   <<"Store", Indirect(1)>>>>, NoLabels, Consecutive)}

Programs == GeneratedPrograms \cup LoadDivPrograms \cup CuratedPrograms

HasInput(prog) ==
    \E k \in 1..Len(prog.instructions) : prog.instructions[k].op = "Input"

\* Input streams: nothing, a number, a padded negative number, a line that
\* is no number, a number too large for the integer type.
Inputs ==
    {<<>>,
     <<<<"7", "\n">>>>,
     <<<<" ", "-", "3", "\n">>, <<"7", "\n">>>>,
     <<<<"x", "\n">>, <<"7", "\n">>>>,
     <<<<"9", "9">>>>}

\* ------------------------------------------------------------------ specification

\* Ram::new(program, reader, writer)
Init ==
    /\ program \in Programs
    /\ input \in (IF HasInput(program) THEN Inputs ELSE {<<>>})
    /\ registers = RegistersFromZeros(InitialRegisters)
    /\ pc = 0
    /\ line = 0
    /\ halt = FALSE
    /\ error = NoError
    /\ output = <<>>
    /\ panicked = FALSE
    /\ mode = "idle"
    /\ nsteps = 0
    /\ nevals = 0
    /\ stepRes = [res |-> "none", err |-> NoError]
    /\ cause = "running"
    /\ ret = NoCall
    /\ source = <<>>
    /\ parsed = NotParsed
    /\ lastSet = EmptyMap

Next == StepCall \/ RunCall \/ RunStep \/ RunReturn \/ NextCall

Spec == Init /\ [][Next]_vars

\* ------------------------------------------------------------------ specification from a source text

\* The lines the sources are made of:
\*   "load =2"          an immediate load
\*   "a: sub =1"        a declaration with an instruction
\*   "jgz a"            a conditional jump to a
\*   "JUMP c"           a jump to c, which no line of the pool declares
\*   "jz b"             a conditional jump to b
\*   "b:"               a declaration alone
\*   "write 0"          an output
\*   "read 1"           an input
\*   "  halt 9 # stop"  a padded halt with an ignored operand and a comment
\*   ""                 an empty line
\*   "nop"              no mnemonic
\*   "store =1"         an immediate where a register is required
SourceLines ==
    {<<"l", "o", "a", "d", " ", "=", "2">>,
     <<"a", ":", " ", "s", "u", "b", " ", "=", "1">>,
     <<"j", "g", "z", " ", "a">>,
     <<"J", "U", "M", "P", " ", "c">>,
     <<"j", "z", " ", "b">>,
     <<"b", ":">>,
     <<"w", "r", "i", "t", "e", " ", "0">>,
     <<"r", "e", "a", "d", " ", "1">>,
     <<" ", " ", "h", "a", "l", "t", " ", "9", " ", "#", " ", "s", "t", "o", "p">>,
     <<>>,
     <<"n", "o", "p">>,
     <<"s", "t", "o", "r", "e", " ", "=", "1">>}

RECURSIVE JoinLines(_)
\* The lines, each ended by a line feed.
JoinLines(ls) ==
    IF ls = <<>> THEN <<>> ELSE Head(ls) \o <<"\n">> \o JoinLines(Tail(ls))

Sources ==
    {JoinLines(ls) : ls \in UNION {[1..n -> SourceLines] : n \in 0..MaxSourceLines}}

\* A source text, nothing parsed, no engine built.
InitSource ==
    /\ source \in Sources
    /\ parsed = NotParsed
    /\ mode = "unbuilt"
    /\ program = EmptyProgram
    /\ input = <<>>
    /\ registers = RegistersFromZeros(InitialRegisters)
    /\ pc = 0
    /\ line = 0
    /\ halt = FALSE
    /\ error = NoError
    /\ output = <<>>
    /\ panicked = FALSE
    /\ nsteps = 0
    /\ nevals = 0
    /\ stepRes = [res |-> "none", err |-> NoError]
    /\ cause = "running"
    /\ ret = NoCall
    /\ lastSet = EmptyMap

\* A call of parser::parse on the source.
ParseCall ==
    /\ mode = "unbuilt" /\ parsed.res = "none"
    /\ parsed' = parse(source)
    /\ UNCHANGED <<engineVars, historyVars, mode, ret, source, lastSet>>

\* Ram::new on the program the parser returned, with a reader and a writer.
NewCall ==
    /\ mode = "unbuilt" /\ parsed.res = "Ok"
    /\ program' = parsed.program
    /\ input' \in (IF HasInput(parsed.program) THEN Inputs ELSE {<<>>})
    /\ registers' = RegistersFromZeros(InitialRegisters)
    /\ pc' = 0
    /\ line' = 0
    /\ halt' = FALSE
    /\ error' = NoError
    /\ mode' = "idle"
    /\ UNCHANGED <<output, panicked, historyVars, ret, parserVars, lastSet>>

NextSource ==
    ParseCall \/ NewCall \/ StepCall \/ RunCall \/ RunStep \/ RunReturn \/ NextCall

SpecParse == InitSource /\ [][NextSource]_vars

\* ------------------------------------------------------------------ specification of one source line

\* The parts the lines are made of: a declaration or none (one with a name
\* that is no label), a mnemonic in some spelling or none or a word that is
\* no mnemonic, an operand or none or two, and a comment or none (one with a
\* colon in it).
LinePrefixes ==
    {<<>>, <<"s", ":", " ">>, <<"1", "s", ":", " ">>}
LineMnemonics ==
    {<<>>, <<"L", "O", "A", "D">>, <<"l", "o", "a", "d">>, <<"A", "d", "d">>,
     <<"s", "u", "b">>, <<"M", "U", "L">>, <<"m", "u", "l", "t">>, <<"D", "i", "v">>,
     <<"W", "R", "I", "T", "E">>, <<"o", "u", "t", "p", "u", "t">>, <<"J", "U", "M", "P">>, <<"j", "m", "p">>,
     <<"J", "Z">>, <<"j", "z", "e", "r", "o">>, <<"J", "G", "Z">>, <<"j", "g", "t", "z">>,
     <<"S", "T", "O", "R", "E">>, <<"i", "n", "p", "u", "t">>, <<"R", "e", "a", "d">>, <<"H", "a", "l", "t">>,
     <<"n", "o", "p">>, <<"N", "o", "p">>}
LineOperands ==
    {<<>>, <<"=", "2">>, <<"=", "-", "3">>, <<"=", "+", "1">>, <<"=", "x">>,
     <<"=">>, <<"*", "1">>, <<"*", "+", "1">>, <<"*", "x">>, <<"*", "-", "1">>,
     <<"1">>, <<"+", "1">>, <<"-", "1">>, <<"x">>, <<"1", "s">>,
     <<"9", "9">>, <<"=", "9", "9">>, <<"1", " ", "2">>}
LineComments ==
    {<<>>, <<" ", "#", " ", "c">>, <<" ", "#", " ", "a", ":", " ", "b">>}

\* A line: the declaration, the mnemonic, a space and the operand if there
\* is one, the comment.
LineOf(pre, mnemonic, operand, comment) ==
    pre \o mnemonic \o (IF operand = <<>> THEN <<>> ELSE <<" ">> \o operand) \o comment

Lines ==
    {LineOf(pre, mnemonic, operand, comment) :
        pre \in LinePrefixes, mnemonic \in LineMnemonics,
        operand \in LineOperands, comment \in LineComments}

\* A source of one line, nothing parsed, no engine built.
InitLine ==
    /\ source \in Lines
    /\ parsed = NotParsed
    /\ mode = "unbuilt"
    /\ program = EmptyProgram
    /\ input = <<>>
    /\ registers = RegistersFromZeros(InitialRegisters)
    /\ pc = 0
    /\ line = 0
    /\ halt = FALSE
    /\ error = NoError
    /\ output = <<>>
    /\ panicked = FALSE
    /\ nsteps = 0
    /\ nevals = 0
    /\ stepRes = [res |-> "none", err |-> NoError]
    /\ cause = "running"
    /\ ret = NoCall
    /\ lastSet = EmptyMap

NextLineParse == ParseCall

SpecLine == InitLine /\ [][NextLineParse]_vars

\* ------------------------------------------------------------------ specification of an iteration

\* The instructions of the iterated programs: loads, arithmetic that can
\* overflow or fail, jumps to bound and unbound labels, an input and a halt;
\* no output, so that a loop revisits its states.
IterAlphabet ==
    {<<"Load", Pure(2)>>, <<"Sub", Pure(1)>>, <<"Add", Pure(I64Max)>>,
     <<"Div", Pure(0)>>, <<"Store", Indirect(1)>>,
     <<"Jump", LabelArg(0)>>, <<"Jump", LabelArg(1)>>, <<"Jump", LabelArg(2)>>,
     <<"JumpIfZero", LabelArg(1)>>, <<"JumpGreatherZero", LabelArg(0)>>,
     <<"Input", Direct(1)>>, <<"Halt", NoArg>>}

IterPrograms ==
    {ProgramFrom(ops, GeneratedLabels, Spaced) :
        ops \in UNION {[1..n -> IterAlphabet] : n \in 0..MaxProgLen}}
    \cup CuratedPrograms

\* Ram::new(program, reader, writer), to be driven as an iterator only.
InitIterate ==
    /\ program \in IterPrograms
    /\ input \in (IF HasInput(program) THEN Inputs ELSE {<<>>})
    /\ registers = RegistersFromZeros(InitialRegisters)
    /\ pc = 0
    /\ line = 0
    /\ halt = FALSE
    /\ error = NoError
    /\ output = <<>>
    /\ panicked = FALSE
    /\ mode = "iterate"
    /\ nsteps = 0
    /\ nevals = 0
    /\ stepRes = [res |-> "none", err |-> NoError]
    /\ cause = "running"
    /\ ret = NoCall
    /\ source = <<>>
    /\ parsed = NotParsed
    /\ lastSet = EmptyMap

\* Iterator::next in a loop that never gives up (for state in ram { .. }).
\* The count of the steps is exact up to MaxSteps and from there alternates
\* between MaxSteps - 1 and MaxSteps, so that the steps go on and every call
\* is a change of state.
IterateCall ==
    /\ mode = "iterate" /\ ~panicked
    /\ \E o \in eval_current :
          /\ step(o)
          /\ nsteps' = (IF nsteps < MaxSteps THEN nsteps + 1 ELSE MaxSteps - 1)
          /\ UNCHANGED nevals
          /\ stepRes' = [res |-> o.res, err |-> o.err]
          /\ cause' = IF cause /= "running" THEN cause
                      ELSE IF o.res = "Err" THEN "error"
                      ELSE IF o.res = "Ok" /\ o.halt THEN "Halt"
                      ELSE cause
          /\ ret' = [call |-> "next",
                     res |-> IF o.res = "Panic" THEN "Panic"
                             ELSE IF o.res = "Ok" /\ ~o.halt THEN "Some"
                             ELSE "None",
                     state |-> IF o.res = "Ok" /\ ~o.halt
                               THEN RamState(program', registers', pc', line',
                                             halt', error')
                               ELSE NoSnapshot,
                     err |-> NoError, from |-> nsteps]
    /\ UNCHANGED <<mode, parserVars, lastSet>>

NextIterate == IterateCall

\* The caller keeps calling next as long as a call is possible.
SpecIterate == InitIterate /\ [][NextIterate]_vars /\ WF_vars(IterateCall)

\* ------------------------------------------------------------------ specification with eval() called from outside

\* The statements handed to eval(): a load, an addition that overflows,
\* jumps to bound and unbound labels, taken or not, an output, an input and
\* a halt, all on a line no program has.
EvalOps ==
    {<<"Load", Pure(2)>>, <<"Add", Pure(I64Max)>>, <<"Jump", LabelArg(2)>>,
     <<"JumpIfZero", LabelArg(1)>>, <<"JumpGreatherZero", LabelArg(2)>>,
     <<"Output", Direct(0)>>, <<"Input", Direct(1)>>, <<"Halt", NoArg>>}
EvalStmts == {Stmt(op[1], op[2], 9) : op \in EvalOps}

\* The programs of the engines eval() is called on.
EvalPrograms ==
    {ProgramFrom(<<>>, GeneratedLabels, Spaced),
     ProgramFrom(<<<<"Div", Pure(0)>>>>, GeneratedLabels, Spaced),
     ProgramFrom(<<<<"JumpGreatherZero", LabelArg(2)>>>>, GeneratedLabels, Spaced)}
    \cup CuratedPrograms

\* Ram::new(program, reader, writer)
InitEval ==
    /\ program \in EvalPrograms
    /\ input \in (IF HasInput(program) THEN Inputs ELSE {<<>>, <<<<"7", "\n">>>>})
    /\ registers = RegistersFromZeros(InitialRegisters)
    /\ pc = 0
    /\ line = 0
    /\ halt = FALSE
    /\ error = NoError
    /\ output = <<>>
    /\ panicked = FALSE
    /\ mode = "idle"
    /\ nsteps = 0
    /\ nevals = 0
    /\ stepRes = [res |-> "none", err |-> NoError]
    /\ cause = "running"
    /\ ret = NoCall
    /\ source = <<>>
    /\ parsed = NotParsed
    /\ lastSet = EmptyMap

\* Variants of a call of eval(stmt) from outside: with the halted guard of
\* eval_current or without, storing the returned address in pc or not,
\* recording a returned error or not.
EvalVariant(guarded, storesPc, recordsError) ==
    /\ mode = "idle" /\ ~panicked /\ nevals < MaxEvals
    /\ \E stmt \in EvalStmts :
       \E o \in (IF guarded /\ halt
                 THEN {Outcome("Err", pc, InterpretError("Halted", line), registers,
                               halt, line, input, output)}
                 ELSE eval(stmt)) :
          /\ registers' = o.registers
          /\ line' = o.line
          /\ input' = o.input
          /\ output' = o.output
          /\ halt' = o.halt
          /\ pc' = (IF storesPc /\ o.res = "Ok" THEN o.next_pc ELSE pc)
          /\ error' = (IF recordsError /\ o.res = "Err" THEN o.err ELSE error)
          /\ panicked' = (o.res = "Panic")
          /\ ret' = [call |-> "eval", res |-> o.res, err |-> o.err, from |-> nsteps,
                     stmt |-> stmt, addr |-> o.next_pc]
    /\ nevals' = nevals + 1
    /\ UNCHANGED <<program, mode, nsteps, stepRes, cause, parserVars, lastSet>>

EvalCall_stores_pc == EvalVariant(FALSE, TRUE, FALSE)

EvalCall_records_error == EvalVariant(FALSE, FALSE, TRUE)

EvalCall_halted_guard == EvalVariant(TRUE, FALSE, FALSE)

\* Ram::eval called from outside: the statement is evaluated on the engine
\* as it is; pc, error and the history of step() are left alone.
EvalCall == EvalVariant(FALSE, FALSE, FALSE)

NextEval ==
    StepCall \/ RunCall \/ RunStep \/ RunReturn \/ NextCall \/ EvalCall

SpecEval == InitEval /\ [][NextEval]_vars

\* ------------------------------------------------------------------ specification of the label table

\* The lines of the sources that sight label names:
\*   "a:"          a declaration alone
\*   "b: jmp a"    a declaration with a jump to another name
\*   "jz b"        a reference
\*   "JUMP c"      a reference to a name no line declares
\*   "a: nop"      a declaration on a line that is rejected
\*   "jmp b c"     a rejected line that names labels
LabelLines ==
    {<<"a", ":">>,
     <<"b", ":", " ", "j", "m", "p", " ", "a">>,
     <<"j", "z", " ", "b">>,
     <<"J", "U", "M", "P", " ", "c">>,
     <<"a", ":", " ", "n", "o", "p">>,
     <<"j", "m", "p", " ", "b", " ", "c">>}

LabelSources ==
    {JoinLines(ls) : ls \in UNION {[1..n -> LabelLines] : n \in 0..MaxSourceLines}}

\* A source text of such lines, nothing parsed, no engine built.
InitLabelSource ==
    /\ source \in LabelSources
    /\ parsed = NotParsed
    /\ mode = "unbuilt"
    /\ program = EmptyProgram
    /\ input = <<>>
    /\ registers = RegistersFromZeros(InitialRegisters)
    /\ pc = 0
    /\ line = 0
    /\ halt = FALSE
    /\ error = NoError
    /\ output = <<>>
    /\ panicked = FALSE
    /\ nsteps = 0
    /\ nevals = 0
    /\ stepRes = [res |-> "none", err |-> NoError]
    /\ cause = "running"
    /\ ret = NoCall
    /\ lastSet = EmptyMap

NextLabelSource == ParseCall

SpecLabelIds == InitLabelSource /\ [][NextLabelSource]_vars

\* ------------------------------------------------------------------ specification of Program::init_labels

\* The statements of the instruction lists given to Program::from: the Label
\* pseudo-instructions of three ids, a load and a jump.
LabelOps ==
    {<<"Label", LabelArg(0)>>, <<"Label", LabelArg(1)>>, <<"Label", LabelArg(2)>>,
     <<"Load", Pure(2)>>, <<"Jump", LabelArg(1)>>}

\* The instruction lists, the k-th statement on line 2 * k.
InstructionLists ==
    {ProgramFrom(ops, EmptyMap, Spaced).instructions :
        ops \in UNION {[1..n -> LabelOps] : n \in 0..MaxInstrs}}

\* format!("L{}", id)
LabelName(id) == <<"L">> \o ToDecimal(id)

\* The label_ids Program::from collects from the Label statements: the name
\* of each id mapped to the id.
CollectLabelIds(instructions) ==
    LET ids == {instructions[k].arg.n :
                  k \in {j \in 1..Len(instructions) : instructions[j].op = "Label"}}
    IN [name \in {LabelName(id) : id \in ids} |->
          CHOOSE id \in ids : LabelName(id) = name]

\* Program::from_with_label_ids: the label table is left empty.
from_with_label_ids(instructions, label_ids) ==
    [instructions |-> instructions, label_ids |-> label_ids, labels |-> EmptyMap]

\* Results of init_labels: the table, the error, or a panic.
LabelsOk(labels) == [res |-> "Ok", err |-> NoError, labels |-> labels]
LabelsErr(ln) ==
    [res |-> "Err", err |-> InterpretError("LabelIsNotValid", ln), labels |-> EmptyMap]
LabelsPanic == [res |-> "Panic", err |-> NoError, labels |-> EmptyMap]

RECURSIVE LabelsLoop(_, _, _)
\* The first loop of init_labels from the k-th statement on, labels_idx being
\* the map so far: the line of the first Label statement whose id is already
\* in the map, or the finished map.
LabelsLoop(instructions, k, labels_idx) ==
    IF k > Len(instructions) THEN [dup |-> FALSE, line |-> 0, idx |-> labels_idx]
    ELSE IF instructions[k].op /= "Label"
    THEN LabelsLoop(instructions, k + 1, labels_idx)
    ELSE IF instructions[k].arg.n \in DOMAIN labels_idx
    THEN [dup |-> TRUE, line |-> instructions[k].line, idx |-> labels_idx]
    ELSE LabelsLoop(instructions, k + 1,
                    MapInsert(labels_idx, instructions[k].arg.n, k - 1))

\* instructions.iter().find(a jump to id): the line of the first one.
FirstJumpTo(instructions, id) ==
    LET jumps == {k \in 1..Len(instructions) :
                    instructions[k].op \in JumpOps /\ instructions[k].arg.n = id}
    IN IF jumps = {} THEN [some |-> FALSE, line |-> 0]
       ELSE [some |-> TRUE,
             line |-> instructions[CHOOSE k \in jumps : \A j \in jumps : k <= j].line]

\* Program::init_labels: the outcomes of building the label table of prog.
\* The hash map's iteration order decides which missing id is found first;
\* an `expect` on None and an index of the map by a missing id panic.
init_labels(prog) ==
    LET loop == LabelsLoop(prog.instructions, 1, EmptyMap)
        n == Cardinality(DOMAIN loop.idx)
        missing == {prog.label_ids[name] : name \in DOMAIN prog.label_ids}
                      \ DOMAIN loop.idx
    IN IF loop.dup THEN {LabelsErr(loop.line)}
       ELSE IF n /= Cardinality(DOMAIN prog.label_ids)
       THEN IF missing = {} THEN {LabelsPanic}
            ELSE {IF FirstJumpTo(prog.instructions, bad_label).some
                  THEN LabelsErr(FirstJumpTo(prog.instructions, bad_label).line)
                  ELSE LabelsPanic : bad_label \in missing}
       ELSE IF \E id \in 0..(n - 1) : id \notin DOMAIN loop.idx
       THEN {LabelsPanic}
       ELSE {LabelsOk([id \in 0..(n - 1) |-> loop.idx[id]])}

\* Label maps a caller of from_with_label_ids may pass besides the one the
\* Label statements give.
GivenLabelIds ==
    {[name \in {LabelName(0)} |-> 0],
     [name \in {LabelName(0), LabelName(1)} |-> IF name = LabelName(0) THEN 0 ELSE 1]}

\* An instruction list not yet made a program (the argument of Program::from),
\* or a program made by from_with_label_ids.
InitLabels ==
    /\ \E instructions \in InstructionLists :
          \/ /\ mode = "unbuilt"
             /\ program = from_with_label_ids(instructions, EmptyMap)
          \/ /\ mode = "with_label_ids"
             /\ \E ids \in GivenLabelIds \cup {CollectLabelIds(instructions)} :
                   program = from_with_label_ids(instructions, ids)
    /\ source = <<>>
    /\ parsed = NotParsed
    /\ input = <<>>
    /\ registers = RegistersFromZeros(InitialRegisters)
    /\ pc = 0
    /\ line = 0
    /\ halt = FALSE
    /\ error = NoError
    /\ output = <<>>
    /\ panicked = FALSE
    /\ nsteps = 0
    /\ nevals = 0
    /\ stepRes = [res |-> "none", err |-> NoError]
    /\ cause = "running"
    /\ ret = NoCall
    /\ lastSet = EmptyMap

\* What a call that runs init_labels on prog leaves: the table is assigned
\* only on success, an error is returned, a panic unwinds.
LabelsCall(call, prog, done) ==
    /\ \E o \in init_labels(prog) :
          /\ program' = IF o.res = "Ok" THEN [prog EXCEPT !.labels = o.labels]
                        ELSE prog
          /\ mode' = IF o.res = "Ok" THEN done ELSE "failed"
          /\ panicked' = (o.res = "Panic")
          /\ ret' = [call |-> call, res |-> o.res, err |-> o.err, from |-> 0]
    /\ UNCHANGED <<registers, pc, line, halt, error, input, output,
                   historyVars, source, parsed, lastSet>>

\* Program::from(instructions): label_ids from the Label statements, then
\* init_labels()?.
ProgramFromCall ==
    /\ mode = "unbuilt"
    /\ LabelsCall("from",
                  from_with_label_ids(program.instructions,
                                      CollectLabelIds(program.instructions)),
                  "built")

\* program.init_labels() called on a program that Program::from returned or
\* from_with_label_ids made.
InitLabelsCall ==
    /\ mode \in {"built", "with_label_ids"}
    /\ LabelsCall("init_labels", program, "labelled")

NextLabels == ProgramFromCall \/ InitLabelsCall

SpecInitLabels == InitLabels /\ [][NextLabels]_vars

\* ------------------------------------------------------------------ specification of a register store

\* The indexes and the values of the calls: the first indexes and the first
\* one Registers::from([0; 100]) leaves unset; the extremes, 0 and 1.
StoreIndexes == (0..MaxRegIndex) \cup {InitialRegisters}
StoreValues == {I64Min, 0, 1, I64Max}

\* A register store of its own: Registers::default(), or the hundred zeros
\* Ram::new starts from.
InitStore ==
    /\ registers \in {EmptyMap, RegistersFromZeros(InitialRegisters)}
    /\ lastSet = EmptyMap
    /\ mode = "store"
    /\ ret = NoCall
    /\ program = EmptyProgram
    /\ input = <<>>
    /\ pc = 0
    /\ line = 0
    /\ halt = FALSE
    /\ error = NoError
    /\ output = <<>>
    /\ panicked = FALSE
    /\ nsteps = 0
    /\ nevals = 0
    /\ stepRes = [res |-> "none", err |-> NoError]
    /\ cause = "running"
    /\ source = <<>>
    /\ parsed = NotParsed

\* Registers::set(index, value)
SetCall ==
    /\ mode = "store"
    /\ \E index \in StoreIndexes, value \in StoreValues :
          /\ registers' = RegSet(registers, index, value)
          /\ lastSet' = [j \in (DOMAIN lastSet) \cup {index} |->
                            IF j = index THEN value ELSE lastSet[j]]
          /\ ret' = [call |-> "set", index |-> index, value |-> value]
    /\ UNCHANGED <<program, pc, line, halt, error, input, output, panicked,
                   mode, historyVars, parserVars>>

\* Registers::get(index)
GetCall ==
    /\ mode = "store"
    /\ \E index \in StoreIndexes :
          ret' = [call |-> "get", index |-> index, value |-> RegGet(registers, index)]
    /\ UNCHANGED <<engineVars, mode, historyVars, parserVars, lastSet>>

NextStore == SetCall \/ GetCall

SpecRegisters == InitStore /\ [][NextStore]_vars

\* ------------------------------------------------------------------ vocabulary of the properties

\* The transition is a step() invocation.
StepTaken == nsteps' = nsteps + 1

\* The content of register i, read off the state.
Reg(i) == IF i \in DOMAIN registers THEN registers[i] ELSE 0

\* pc is the address of an instruction, and that instruction.
InRange == pc < Len(program.instructions)
CurrentStmt == program.instructions[pc + 1]

\* The value a Value operand denotes, when its indirection is a valid index.
Resolvable(arg) == arg.kind = "Indirect" => Reg(arg.n) >= 0
ResolvedValue(arg) ==
    CASE arg.kind = "Pure" -> arg.n
      [] arg.kind = "Direct" -> Reg(arg.n)
      [] arg.kind = "Indirect" -> Reg(Reg(arg.n))

\* The current instruction is a jump whose condition holds.
Taken ==
    \/ CurrentStmt.op = "Jump"
    \/ CurrentStmt.op = "JumpIfZero" /\ Reg(0) = 0
    \/ CurrentStmt.op = "JumpGreatherZero" /\ Reg(0) > 0

\* ------------------------------------------------------------------ C1

\* C1: fail-stop.  Whenever a step() on a running engine fails with a runtime
\* error E, the resulting state has halt = true and get_error() = E, the call
\* returns E, a run() in progress returns that same E at once, and every
\* later step() fails.
C1_FailStop ==
    [][ /\ (StepTaken /\ ~halt /\ stepRes'.res = "Err") =>
              /\ stepRes'.err.kind \in RuntimeErrorKinds
              /\ halt'
              /\ error' = stepRes'.err
              /\ (ret'.call = "step") => (ret'.res = "Err" /\ ret'.err = stepRes'.err)
              /\ (mode = "run") =>
                    /\ mode' = "idle"
                    /\ ret'.call = "run" /\ ret'.res = "Err"
                    /\ ret'.err = stepRes'.err
        /\ (StepTaken /\ halt) => (stepRes'.res = "Err" /\ halt')
      ]_vars

\* A run() that returned the division error of its second step.
C1_Witness ==
    /\ ret.call = "run" /\ ret.res = "Err"
    /\ ret.err.kind = "DivisionByZero"
    /\ error = ret.err /\ halt /\ nsteps = 2

\* ------------------------------------------------------------------ C2

\* C2: halted-state guard.  After a Halt instruction has executed
\* successfully, every further step() fails with Halted, leaves every
\* register and the pc unchanged, reads nothing and writes nothing.
C2_HaltedGuard ==
    [][ (StepTaken /\ cause = "Halt") =>
            /\ stepRes'.res = "Err"
            /\ stepRes'.err.kind = "Halted"
            /\ registers' = registers
            /\ pc' = pc
            /\ input' = input
            /\ output' = output
      ]_vars

\* Two steps after the Halt of the end-to-end program.
C2_Witness ==
    /\ cause = "Halt" /\ program = EndToEndProgram
    /\ stepRes.res = "Err" /\ stepRes.err.kind = "Halted"
    /\ output = <<"4">> /\ nsteps = 6

\* ------------------------------------------------------------------ C3

\* C3: a step() on a halted engine has no effect on the recorded error: once
\* the engine is halted, get_error() keeps the value it had when it halted
\* (empty after a clean Halt, the first runtime error otherwise).
C3_RecordedErrorKept == [][ halt => (error' = error) ]_vars

\* ------------------------------------------------------------------ C4

\* C4: engine state machine.  The engine starts Running; a step() of a
\* running engine halts it if and only if the instruction is Halt or the
\* step fails; nothing but a step() changes halt; once true, halt stays true.
C4_StateMachine ==
    /\ ~halt
    /\ [][ /\ (StepTaken /\ ~halt) =>
                 (halt' <=> ((InRange /\ CurrentStmt.op = "Halt")
                             \/ stepRes'.res = "Err"))
           /\ halt => halt'
           /\ ~StepTaken => (halt' = halt)
         ]_vars

\* A run() called on an engine that an error had halted returned Ok, and the
\* engine is still halted.
C4_Witness ==
    /\ halt /\ cause = "error"
    /\ ret.call = "run" /\ ret.res = "Ok" /\ ret.from >= 2

\* ------------------------------------------------------------------ C5

\* C5 as stated: whenever step() fails, every register and the pc hold the
\* values they had before the call and nothing has been written.
C5_AtomicAsStated ==
    [][ (StepTaken /\ stepRes'.res = "Err") =>
            (registers' = registers /\ pc' = pc /\ output' = output)
      ]_vars

\* C5 amended: whenever step() fails, every register and the pc hold the
\* values they had before the call; the output stream is unchanged too,
\* except when an Output instruction fails with IOError, where the writer may
\* have accepted a proper prefix of the value's text before it failed.
C5_AtomicAmended ==
    [][ (StepTaken /\ stepRes'.res = "Err") =>
            /\ registers' = registers
            /\ pc' = pc
            /\ \/ output' = output
               \/ /\ stepRes'.err.kind = "IOError"
                  /\ ~halt /\ InRange /\ CurrentStmt.op = "Output"
                  /\ \E k \in 1..(Len(ToDecimal(ResolvedValue(CurrentStmt.arg))) - 1) :
                        output' = output
                            \o SubSeq(ToDecimal(ResolvedValue(CurrentStmt.arg)), 1, k)
      ]_vars

\* The writer failed after the sign of the smallest integer.
C5_Witness ==
    /\ stepRes.res = "Err" /\ stepRes.err.kind = "IOError"
    /\ error = stepRes.err /\ halt
    /\ Reg(0) = I64Min /\ output = <<"-">> /\ pc = 1

\* ------------------------------------------------------------------ C6

\* C6: each successful step() of a running engine with pc = p executes the
\* instruction at p: afterwards line is that instruction's line and pc is
\* p + 1, except after a taken jump, where pc is the address bound to the
\* jump's label.
C6_OneInstruction ==
    [][ (StepTaken /\ ~halt /\ stepRes'.res = "Ok") =>
            /\ InRange
            /\ line' = CurrentStmt.line
            /\ pc' = IF Taken THEN program.labels[CurrentStmt.arg.n] ELSE pc + 1
      ]_vars

\* The countdown loop has just jumped back from address 2 to address 1.
C6_Witness ==
    /\ stepRes.res = "Ok" /\ ~halt
    /\ pc = 1 /\ line = 6 /\ nsteps = 3 /\ Reg(0) = 1
    /\ 0 \in DOMAIN program.labels /\ program.labels[0] = 1

\* ------------------------------------------------------------------ C7

\* C7: run() on a fresh engine returns success exactly when execution reached
\* a Halt with no step failing; then halt = true, get_error() is empty, pc is
\* the Halt's address plus one, line is the Halt's line and nothing after the
\* Halt has run (load =2; add =2; output 0; halt ends with register 0 = 4
\* and the output text 4).
C7_RunToHalt ==
    (ret.call = "run" /\ ret.from = 0 /\ ret.res \in {"Ok", "Err"}) =>
        /\ (ret.res = "Ok") <=> (cause = "Halt")
        /\ (ret.res = "Ok") =>
              /\ stepRes.res = "Ok"
              /\ halt /\ error = NoError
              /\ pc \in 1..Len(program.instructions)
              /\ program.instructions[pc].op = "Halt"
              /\ line = program.instructions[pc].line
        /\ (ret.res = "Ok" /\ program = EndToEndProgram) =>
              (Reg(0) = 4 /\ output = <<"4">> /\ pc = 4 /\ nsteps = 4)

\* run() on the fresh end-to-end program has returned Ok.
C7_Witness ==
    /\ ret.call = "run" /\ ret.from = 0 /\ ret.res = "Ok"
    /\ program = EndToEndProgram /\ output = <<"4">>

\* ------------------------------------------------------------------ C9

\* C9: executing Div(v) when v resolves to 0 fails with DivisionByZero,
\* leaves the accumulator unchanged and halts the engine; no later step
\* succeeds.
C9_DivisionByZero ==
    [][ /\ ( /\ StepTaken /\ ~halt /\ InRange
             /\ CurrentStmt.op = "Div"
             /\ Resolvable(CurrentStmt.arg)
             /\ ResolvedValue(CurrentStmt.arg) = 0 ) =>
              /\ stepRes'.res = "Err"
              /\ stepRes'.err = InterpretError("DivisionByZero", CurrentStmt.line)
              /\ RegGet(registers', 0) = Reg(0)
              /\ halt'
        /\ (StepTaken /\ halt) => (stepRes'.res = "Err")
      ]_vars

\* LOAD =5; DIV =0 has just failed.
C9_Witness ==
    /\ ret.call = "step" /\ ret.res = "Err"
    /\ ret.err = InterpretError("DivisionByZero", 2)
    /\ Reg(0) = 5 /\ halt /\ pc = 1

\* ------------------------------------------------------------------ C10

\* C10: for all a and b /= 0 of the integer type, extremes included,
\* Load(a) then Div(b) succeeds and leaves the accumulator equal to a / b
\* truncated toward zero.
C10_LoadDiv ==
    ( /\ Len(program.instructions) = 3
      /\ program.instructions[1].op = "Load"
      /\ program.instructions[1].arg.kind = "Pure"
      /\ program.instructions[2].op = "Div"
      /\ program.instructions[2].arg.kind = "Pure"
      /\ program.instructions[2].arg.n /= 0
      /\ nsteps = 2 ) =>
        /\ stepRes.res = "Ok"
        /\ Reg(0) = TruncDiv(program.instructions[1].arg.n,
                             program.instructions[2].arg.n)

\* ------------------------------------------------------------------ C8

\* The label names the lines of src declare (name: before the first colon).
DeclaredLabels(src) ==
    {parse_label(Trim(lines(src)[k])).label :
        k \in {j \in 1..Len(lines(src)) : parse_label(Trim(lines(src)[j])).some}}

\* The words of line k of src after its label and before its comment.
FactsOf(src, k) ==
    split_whitespace(split_first(parse_label(Trim(lines(src)[k])).tail, "#"))

\* Line k of src is a jump instruction naming a label no line declares.
JumpToUndeclared(src, k) ==
    /\ parse_label(Trim(lines(src)[k])).ok
    /\ Len(FactsOf(src, k)) = 2
    /\ to_uppercase(FactsOf(src, k)[1]) \in LabelMnemonics
    /\ is_valid_label(FactsOf(src, k)[2])
    /\ FactsOf(src, k)[2] \notin DeclaredLabels(src)

\* The jump targets of a program that its label table does not bind.
UnboundTargets(prog) ==
    {prog.instructions[k].arg.n :
        k \in {j \in 1..Len(prog.instructions) : prog.instructions[j].op \in JumpOps}}
    \ DOMAIN prog.labels

\* C8: undefined label rejection.  Once the parser has returned for a source
\* in which a JUMP/JZ/JGZ line names a label declared nowhere, the result is
\* an error and LabelIsNotValid is reported for that line; every program the
\* parser returns binds every LabelId used as a jump target; and an engine
\* running a parsed program never records UnknownLabel.
C8_UndefinedLabelRejected ==
    /\ parsed.res /= "none" =>
          \A k \in 1..Len(lines(source)) :
             JumpToUndeclared(source, k) =>
                /\ parsed.res = "Err"
                /\ \E e \in 1..Len(parsed.errors) :
                      /\ parsed.errors[e].kind.kind = "LabelIsNotValid"
                      /\ parsed.errors[e].line = k
    /\ parsed.res = "Ok" => UnboundTargets(parsed.program) = {}
    /\ parsed.res = "Ok" => error.kind /= "UnknownLabel"

\* ------------------------------------------------------------------ C11

\* C11: runtime failures are values.  Every step() returns success or an
\* InterpretError of one of the seven kinds and never aborts the engine,
\* also when the exact result of Add, Sub or Mult is outside the integer
\* type.
C11_FailuresAreValues ==
    [][ StepTaken =>
            /\ stepRes'.res \in {"Ok", "Err"}
            /\ ~panicked'
            /\ (stepRes'.res = "Err") => (stepRes'.err.kind \in RuntimeErrorKinds)
      ]_vars

\* ------------------------------------------------------------------ C12

\* The instructions that resolve a Value operand.
ValueOps == {"Load", "Add", "Sub", "Mult", "Div", "Output"}

\* Every register index a state or its successor holds, and every index
\* of the index type.
Indexes == Usize \cup DOMAIN registers \cup DOMAIN registers'

\* C12: operand resolution.  Pure(n) resolves to n, Register(Direct(i)) to
\* R[i], Register(Indirect(i)) to R[R[i]] when R[i] >= 0 and fails with
\* SegmentationFault when R[i] < 0; registers never written read as 0;
\* resolution changes no register: Load(v) sets register 0 to the resolved
\* value and nothing else, and a failed resolution changes nothing.
C12_OperandResolution ==
    [][ (StepTaken /\ ~halt /\ InRange /\ CurrentStmt.op \in ValueOps) =>
            /\ (Resolvable(CurrentStmt.arg) /\ CurrentStmt.op = "Load") =>
                  /\ stepRes'.res = "Ok"
                  /\ RegGet(registers', 0) = ResolvedValue(CurrentStmt.arg)
                  /\ \A j \in Indexes \ {0} : RegGet(registers', j) = Reg(j)
            /\ ~Resolvable(CurrentStmt.arg) =>
                  /\ stepRes'.res = "Err"
                  /\ stepRes'.err = InterpretError("SegmentationFault", CurrentStmt.line)
                  /\ registers' = registers
      ]_vars

\* LOAD *2 with register 2 holding 5 and register 5 holding 7 has set the
\* accumulator to 7.
C12_Witness ==
    /\ nsteps = 5 /\ stepRes.res = "Ok" /\ pc = 5
    /\ program.instructions[5] = Stmt("Load", Indirect(2), 5)
    /\ Reg(2) = 5 /\ Reg(5) = 7 /\ Reg(0) = 7

\* ------------------------------------------------------------------ C13

\* The register a RegisterValue designates as a destination.
DestIndex(arg) == IF arg.kind = "Direct" THEN arg.n ELSE Reg(arg.n)

\* The effect of a successful store of value v through destination arg:
\* the designated register holds v and no other register has changed.
StoredAt(arg, v) ==
    /\ RegGet(registers', DestIndex(arg)) = v
    /\ \A j \in Indexes \ {DestIndex(arg)} : RegGet(registers', j) = Reg(j)

Bound == CurrentStmt.arg.n \in DOMAIN program.labels

\* C14: control transfer.  Jump(l) sets the next pc to the address bound to
\* l; JumpIfZero(l) does so exactly when the accumulator is 0 and
\* JumpGreaterZero(l) exactly when it is greater than 0, otherwise the next
\* pc is pc + 1; no jump instruction changes a register.
C14_ControlTransfer ==
    [][ (StepTaken /\ ~halt /\ InRange /\ CurrentStmt.op \in JumpOps) =>
            /\ registers' = registers
            /\ (Taken /\ Bound) =>
                  (stepRes'.res = "Ok" /\ pc' = program.labels[CurrentStmt.arg.n])
            /\ ~Taken => (stepRes'.res = "Ok" /\ pc' = pc + 1)
      ]_vars

\* The countdown loop jumped back once, and with the accumulator at 0 its
\* JGZ has fallen through to the Halt.
C14_Witness ==
    /\ nsteps = 5 /\ stepRes.res = "Ok" /\ ~halt
    /\ Len(program.instructions) = 4
    /\ program.instructions[3].op = "JumpGreatherZero"
    /\ 0 \in DOMAIN program.labels /\ program.labels[0] = 1
    /\ pc = 3 /\ Reg(0) = 0 /\ line = program.instructions[3].line

\* ------------------------------------------------------------------ C15

\* C15: unknown label at run time.  In a program built from an instruction
\* list, a Jump, or a conditional jump whose condition holds, whose label
\* has no binding in the label table fails with UnknownLabel, leaves pc and
\* registers unchanged and halts the engine.
C15_UnknownLabel ==
    [][ ( /\ StepTaken /\ ~halt /\ InRange
          /\ CurrentStmt.op \in JumpOps /\ Taken /\ ~Bound ) =>
            /\ stepRes'.res = "Err"
            /\ stepRes'.err = InterpretError("UnknownLabel", CurrentStmt.line)
            /\ error' = stepRes'.err
            /\ pc' = pc
            /\ registers' = registers
            /\ halt'
      ]_vars

\* LOAD =2 and then a JGZ to a label bound nowhere: the jump has failed.
C15_Witness ==
    /\ nsteps = 2 /\ stepRes.res = "Err" /\ halt /\ pc = 1 /\ Reg(0) = 2
    /\ Len(program.instructions) = 2
    /\ program.instructions[2].op = "JumpGreatherZero"
    /\ program.instructions[2].arg.n \notin DOMAIN program.labels
    /\ error = InterpretError("UnknownLabel", program.instructions[2].line)

\* ------------------------------------------------------------------ C16

\* C16: running off the program.  line is the line of the last instruction
\* evaluated (0 when none was), and whenever the pc of a running engine is
\* not the address of an instruction, step() fails with SegmentationFault
\* carrying that line and halts the engine.
C16_RunningOff ==
    /\ [](nsteps = 0 => line = 0)
    /\ [][ /\ (StepTaken /\ ~halt /\ InRange) => (line' = CurrentStmt.line)
           /\ (StepTaken /\ ~halt /\ ~InRange) =>
                 /\ stepRes'.res = "Err"
                 /\ stepRes'.err = InterpretError("SegmentationFault", line)
                 /\ error' = stepRes'.err
                 /\ line' = line
                 /\ halt'
         ]_vars

\* The source `jz b` / `b:` binds b after the last instruction: the jump was
\* taken to address 1 and the next step has failed on line 1.
C16_Witness ==
    /\ parsed.res = "Ok" /\ nsteps = 2 /\ halt /\ pc = 1
    /\ Len(program.instructions) = 1
    /\ program.instructions[1] = Stmt("JumpIfZero", LabelArg(0), 1)
    /\ program.labels[0] = 1
    /\ error = InterpretError("SegmentationFault", 1)

\* ------------------------------------------------------------------ C17

\* The step at hand executes an Output instruction.
OutputStep == StepTaken /\ ~halt /\ InRange /\ CurrentStmt.op = "Output"

\* C17 as stated, in inductive form: the output stream starts empty; an
\* Output instruction executed successfully appends the decimal text of its
\* resolved value, with no separator and no newline; no other step, failed
\* or not, writes anything.  So the stream is at every point the
\* concatenation of the texts of the successful Outputs, in execution order.
C17_OutputAsStated ==
    /\ output = <<>>
    /\ [][ IF OutputStep /\ stepRes'.res = "Ok"
           THEN output' = output \o ToDecimal(ResolvedValue(CurrentStmt.arg))
           ELSE output' = output
         ]_vars

\* C17 amended: as stated, except that an Output instruction that fails with
\* IOError may leave a proper prefix of its value's text at the end of the
\* stream; that failure halts the engine, so nothing is written after it.
C17_OutputAmended ==
    /\ output = <<>>
    /\ [][ IF OutputStep /\ stepRes'.res = "Ok"
           THEN output' = output \o ToDecimal(ResolvedValue(CurrentStmt.arg))
           ELSE IF OutputStep /\ stepRes'.res = "Err" /\ stepRes'.err.kind = "IOError"
           THEN /\ halt'
                /\ \E k \in 0..(Len(ToDecimal(ResolvedValue(CurrentStmt.arg))) - 1) :
                      output' = output
                          \o SubSeq(ToDecimal(ResolvedValue(CurrentStmt.arg)), 1, k)
           ELSE output' = output
         ]_vars

\* write 0 / load =2 / write 0 has written 0 and then 2, nothing between.
C17_Witness ==
    /\ parsed.res = "Ok" /\ nsteps = 3 /\ stepRes.res = "Ok"
    /\ Len(program.instructions) = 3
    /\ program.instructions[1].op = "Output"
    /\ program.instructions[2] = Stmt("Load", Pure(2), 2)
    /\ program.instructions[3].op = "Output"
    /\ output = <<"0", "2">>

\* ------------------------------------------------------------------ C18

\* The step at hand executes an Input instruction.
InputStep == StepTaken /\ ~halt /\ InRange /\ CurrentStmt.op = "Input"

\* The next line of the input stream; the empty text at its end.
NextLine == IF input = <<>> THEN <<>> ELSE Head(input)

\* The destination of a RegisterValue resolves: a direct index within the
\* signed integers, or an indirect one whose register is not negative.
DestResolvable(arg) ==
    IF arg.kind = "Direct" THEN arg.n <= I64Max ELSE Reg(arg.n) >= 0

\* C18: input round trip.  When the reader delivers the next line and that
\* line, trimmed, is the decimal text of a signed integer n, Input(r)
\* consumes exactly that line, stores n in the register r designates
\* (resolved like a Store destination) and changes no other register.
C18_InputRoundTrip ==
    [][ \A n \in I64 :
          ( /\ InputStep
            /\ input /= <<>>
            /\ Trim(NextLine) = ToDecimal(n)
            /\ DestResolvable(CurrentStmt.arg)
            /\ ~(stepRes'.res = "Err" /\ stepRes'.err.kind = "IOError") ) =>
              /\ stepRes'.res = "Ok"
              /\ input' = Tail(input)
              /\ StoredAt(CurrentStmt.arg, n)
              /\ pc' = pc + 1
      ]_vars

\* input 1; load 1; output 0 on the input line 7 has written 7.
C18_Witness ==
    /\ nsteps = 3 /\ stepRes.res = "Ok"
    /\ Len(program.instructions) = 4
    /\ program.instructions[1] = Stmt("Input", Direct(1), 1)
    /\ program.instructions[2] = Stmt("Load", Direct(1), 2)
    /\ program.instructions[3] = Stmt("Output", Direct(0), 3)
    /\ Reg(1) = 7 /\ Reg(0) = 7 /\ input = <<>> /\ output = <<"7">>

\* ------------------------------------------------------------------ C19

\* The reader delivered a line to the Input instruction at hand, and that
\* line does not parse as a signed integer.
BadLineRead ==
    /\ InputStep
    /\ ~(stepRes'.res = "Err" /\ stepRes'.err.kind = "IOError")
    /\ ~ParseI64(Trim(NextLine)).ok

\* The stream after one line was taken from it.
LineConsumed == input' = (IF input = <<>> THEN input ELSE Tail(input))

C20_RegisterStore ==
    /\ []( (mode = "store" /\ ret.call = "get") =>
              ret.value = (IF ret.index \in DOMAIN lastSet
                           THEN lastSet[ret.index] ELSE 0) )
    /\ [][ /\ (mode = "store" /\ ret'.call = "get") => (registers' = registers)
           /\ (mode = "store" /\ ret'.call = "set") =>
                 \A j \in (StoreIndexes \cup DOMAIN registers) \ {ret'.index} :
                    RegGet(registers', j) = RegGet(registers, j)
         ]_vars

\* On a store that started empty, after set(0, 1) and set(1, I64Max) with
\* index 2 never written, get(2) has returned 0.
C20_Witness ==
    /\ mode = "store" /\ ret.call = "get"
    /\ DOMAIN registers = {0, 1}
    /\ lastSet = [j \in {0, 1} |-> IF j = 0 THEN 1 ELSE I64Max]
    /\ ret.index = 2 /\ ret.value = 0

\* ------------------------------------------------------------------ C21

\* The numbers of the lines of src that parse_line rejects, each line taken
\* alone (a fresh label table).
InvalidLines(src) ==
    {k \in 1..Len(lines(src)) : ~parse_line(lines(src)[k], EmptyMap).ok}

\* C21: collect-all parsing.  Once parse has returned, the result is an error
\* set exactly when some line of the source is invalid and a program exactly
\* when none is; the error set holds one error for each invalid line and no
\* other, in increasing line order, each with the 1-based number of its line
\* and the error parse_line gives for that line alone, whatever invalid lines
\* came before it; no program comes with an error set.
C21_CollectAll ==
    parsed.res /= "none" =>
       /\ parsed.res = "Err" <=> InvalidLines(source) /= {}
       /\ parsed.res = "Ok" <=> InvalidLines(source) = {}
       /\ Len(parsed.errors) = Cardinality(InvalidLines(source))
       /\ \A e \in 1..Len(parsed.errors) :
             /\ parsed.errors[e].line \in InvalidLines(source)
             /\ parsed.errors[e].kind =
                   parse_line(lines(source)[parsed.errors[e].line], EmptyMap).err
             /\ e < Len(parsed.errors) =>
                   parsed.errors[e].line < parsed.errors[e + 1].line
       /\ parsed.res = "Err" => parsed.program = EmptyProgram

\* parse has returned two errors, for lines 1 and 3 of a source whose line 2
\* is valid.
C21_Witness ==
    /\ parsed.res = "Err"
    /\ Len(lines(source)) = 3
    /\ InvalidLines(source) = {1, 3}
    /\ Len(parsed.errors) = 2
    /\ parsed.errors[1].line = 1
    /\ parsed.errors[2].line = 3
    /\ parsed.errors[1].kind.kind = "UnsupportedOpcode"
    /\ parsed.errors[2].kind = pure_argument_not_allowed

\* ------------------------------------------------------------------ C22

\* The line without its comment: everything from the first '#' removed.
StripComment(text) == split_first(text, "#")

\* The line is a comment and nothing else.
CommentOnly(text) == Trim(text) /= <<>> /\ Head(Trim(text)) = "#"

\* C22: comment stripping comes first.  Once parse has returned for a line,
\* its result (the instruction, the label binding or the error) is the
\* result of parsing the line without its comment, whatever the comment
\* holds; and a comment-only line gives a program with no instruction and no
\* label, and no error.
C22_CommentFirst ==
    parsed.res /= "none" =>
       /\ parsed = parse(StripComment(source))
       /\ CommentOnly(source) =>
             /\ parsed.res = "Ok"
             /\ parsed.program = EmptyProgram

\* ------------------------------------------------------------------ C23

\* Line k of src declares the label name (name: at its start).
Declares(src, k, name) ==
    /\ parse_label(Trim(lines(src)[k])).some
    /\ parse_label(Trim(lines(src)[k])).label = name

\* The lines of src that emit an instruction.
EmittingLines(src) ==
    {j \in 1..Len(lines(src)) : parse_line(lines(src)[j], EmptyMap).hasOp}

\* The number of instructions the lines strictly before line k emit.
EmittedBefore(src, k) == Cardinality({j \in EmittingLines(src) : j < k})

\* The LabelId parse has given the name when its loop ends.
LabelIdOf(src, name) == ParseLoop(ParseStart, lines(src), 1).label_ids[name]

\* The lines of src that declare the name.
DeclaringLines(src, name) ==
    {k \in 1..Len(lines(src)) : Declares(src, k, name)}

\* C23: label address.  In a parsed program the address bound to a label
\* declared on one line is the number of instructions the lines strictly
\* before that line emit; the program holds one instruction for each emitting
\* line and none for a label alone on its line; and the address of a label
\* that shares its line with an instruction is the slot of that instruction.
C23_LabelAddress ==
    parsed.res = "Ok" =>
       /\ Len(parsed.program.instructions) = Cardinality(EmittingLines(source))
       /\ \A name \in DeclaredLabels(source) :
          \A k \in DeclaringLines(source, name) :
             DeclaringLines(source, name) = {k} =>
                /\ LabelIdOf(source, name) \in DOMAIN parsed.program.labels
                /\ parsed.program.labels[LabelIdOf(source, name)]
                      = EmittedBefore(source, k)
                /\ k \in EmittingLines(source) =>
                      parsed.program.instructions[EmittedBefore(source, k) + 1].line = k

\* A program parsed from three lines: an instruction, a declaration of a with
\* an instruction, a declaration of b alone: a designates the second
\* instruction, b the end of the two instructions.
C23_Witness ==
    /\ parsed.res = "Ok"
    /\ Len(lines(source)) = 3
    /\ EmittingLines(source) = {1, 2}
    /\ Declares(source, 2, <<"a">>)
    /\ Declares(source, 3, <<"b">>)
    /\ parsed.program.labels[LabelIdOf(source, <<"a">>)] = 1
    /\ parsed.program.labels[LabelIdOf(source, <<"b">>)] = 2
    /\ Len(parsed.program.instructions) = 2

\* ------------------------------------------------------------------ C24

\* The source line the current instruction was parsed from.
CurrentSourceLine == program.instructions[pc + 1].line

\* The label name the current instruction, a jump, was written with.
JumpName == FactsOf(source, CurrentSourceLine)[2]

\* C24: forward references.  In an engine built from a parsed program, a
\* taken jump whose label name is declared on one line of the source succeeds
\* and sets pc to the address of that declaration (the number of instructions
\* emitted before the declaring line), whether the declaration stands before
\* or after the jump; and the LabelId the jump carries is the one the
\* declaration of the name received.
C24_ForwardReferences ==
    [][(/\ StepTaken
        /\ parsed.res = "Ok"
        /\ ~halt
        /\ InRange
        /\ CurrentStmt.op \in JumpOps
        /\ Taken
        /\ \E k \in 1..Len(lines(source)) : DeclaringLines(source, JumpName) = {k})
       => /\ stepRes'.res = "Ok"
          /\ \A k \in DeclaringLines(source, JumpName) :
                pc' = EmittedBefore(source, k)
          /\ CurrentStmt.arg.n = LabelIdOf(source, JumpName)]_vars

\* A taken jump from line 1 to the label b declared on line 3, past the
\* instruction of line 2.
C24_Witness ==
    /\ parsed.res = "Ok"
    /\ nsteps = 1
    /\ stepRes.res = "Ok"
    /\ Len(lines(source)) = 3
    /\ FactsOf(source, 1) = <<<<"j", "z">>, <<"b">>>>
    /\ EmittingLines(source) = {1, 2}
    /\ Declares(source, 3, <<"b">>)
    /\ pc = 2

\* ------------------------------------------------------------------ C25

\* The last line of src that declares the name.
LastDeclaration(src, name) ==
    CHOOSE k \in DeclaringLines(src, name) :
        \A j \in DeclaringLines(src, name) : j <= k

\* The names src declares on more than one line.
DuplicateLabels(src) ==
    {name \in DeclaredLabels(src) : Cardinality(DeclaringLines(src, name)) > 1}

\* C25: duplicate declarations.  Once parse has returned for a source whose
\* lines are all valid, the result is a program, however many lines declare
\* one name; the program's label table has one entry for each declared name,
\* under the one LabelId of that name, and the address of the entry is that
\* of the last declaration of the name in source order.
C25_DuplicateLabels ==
    parsed.res /= "none" =>
       /\ InvalidLines(source) = {} => parsed.res = "Ok"
       /\ parsed.res = "Ok" =>
             /\ Cardinality(DOMAIN parsed.program.labels)
                   = Cardinality(DeclaredLabels(source))
             /\ \A name \in DeclaredLabels(source) :
                   /\ LabelIdOf(source, name) \in DOMAIN parsed.program.labels
                   /\ parsed.program.labels[LabelIdOf(source, name)]
                         = EmittedBefore(source, LastDeclaration(source, name))

\* A program parsed from a source that declares b on line 1 and again on
\* line 3, after the instruction of line 2: b is bound to address 1.
C25_Witness ==
    /\ parsed.res = "Ok"
    /\ Len(lines(source)) = 3
    /\ DuplicateLabels(source) = {<<"b">>}
    /\ DeclaringLines(source, <<"b">>) = {1, 3}
    /\ EmittingLines(source) = {2}
    /\ parsed.program.labels = [id \in {0} |-> 1]

\* ------------------------------------------------------------------ C26

\* The digits of a numeral after its sign, and the sign.
NumeralBody(t) ==
    IF t /= <<>> /\ Head(t) \in {"+", "-"} THEN Tail(t) ELSE t
NumeralNegative(t) == t /= <<>> /\ Head(t) = "-"

\* t writes a non-negative integer of the index type: digits, after a '+' or
\* not, no more than usize holds.
NonNegativeNumeral(t) ==
    /\ ~NumeralNegative(t)
    /\ NumeralBody(t) /= <<>>
    /\ \A k \in 1..Len(NumeralBody(t)) : IsDigit(NumeralBody(t)[k])
    /\ DigitsToNat(NumeralBody(t), 0) \in Usize

\* t writes an integer of the immediate type: digits, after a sign or not,
\* no more and no less than isize holds.
SignedNumeral(t) ==
    /\ NumeralBody(t) /= <<>>
    /\ \A k \in 1..Len(NumeralBody(t)) : IsDigit(NumeralBody(t)[k])
    /\ (IF NumeralNegative(t) THEN -DigitsToNat(NumeralBody(t), 0)
        ELSE DigitsToNat(NumeralBody(t), 0)) \in I64

\* The integer a numeral writes.
NumeralValue(t) ==
    IF NumeralNegative(t) THEN -DigitsToNat(NumeralBody(t), 0)
    ELSE DigitsToNat(NumeralBody(t), 0)

\* The source is one line that reaches the operand parser of one of the
\* mnemonics: a valid label or none, then a mnemonic of the set and one
\* operand.
OperandLine(mnemonics) ==
    /\ Len(lines(source)) = 1
    /\ parse_label(Trim(lines(source)[1])).ok
    /\ Len(FactsOf(source, 1)) = 2
    /\ to_uppercase(FactsOf(source, 1)[1]) \in mnemonics

\* The operand of that line, and what parse returned for it.
Operand == FactsOf(source, 1)[2]
Accepted(arg) ==
    /\ parsed.res = "Ok"
    /\ Len(parsed.program.instructions) = 1
    /\ parsed.program.instructions[1].arg = arg
Rejected(kind) ==
    /\ parsed.res = "Err"
    /\ parsed.errors = <<[kind |-> kind, line |-> 1]>>

\* The immediate =N is a numeral: a non-negative one, or a signed one.
ImmediateNumeral(t, signed) ==
    IF signed THEN SignedNumeral(t) ELSE NonNegativeNumeral(t)

\* The value operand grammar, with non-negative or with signed immediates.
ValueGrammar(signed) ==
    IF Head(Operand) = "="
    THEN IF ImmediateNumeral(Tail(Operand), signed)
         THEN Accepted(Pure(NumeralValue(Tail(Operand))))
         ELSE Rejected(argument_value_must_be_numeric)
    ELSE IF Head(Operand) = "*"
    THEN IF NonNegativeNumeral(Tail(Operand))
         THEN Accepted(Indirect(NumeralValue(Tail(Operand))))
         ELSE Rejected(argument_value_must_be_numeric)
    ELSE IF NonNegativeNumeral(Operand)
         THEN Accepted(Direct(NumeralValue(Operand)))
         ELSE Rejected(not_valid_argument)

\* C26 as stated: value operand grammar.  Once parse has returned for a line
\* of LOAD/ADD/SUB/MUL/MULT/DIV/WRITE/OUTPUT with one operand, the operand
\* is accepted exactly when it is =N, *N or N with N a non-negative integer,
\* as Pure(N), Indirect(N) and Direct(N); a '=' or '*' followed by anything
\* else is rejected with ArgumentValueMustBeNumeric, any other operand with
\* ArgumentIsNotValid.
C26_ValueGrammarAsStated ==
    (parsed.res /= "none" /\ OperandLine(ValueMnemonics)) => ValueGrammar(FALSE)

\* C26 amended: the same, with N of =N a signed integer.
C26_ValueGrammarAmended ==
    (parsed.res /= "none" /\ OperandLine(ValueMnemonics)) => ValueGrammar(TRUE)

\* parse has accepted the negative immediate of LOAD =-3.
C26_Witness ==
    /\ parsed.res = "Ok"
    /\ OperandLine({<<"L", "O", "A", "D">>})
    /\ Operand = <<"=", "-", "3">>
    /\ Accepted(Pure(-3))

\* ------------------------------------------------------------------ C27

\* C27: destination operand grammar.  Once parse has returned for a line of
\* STORE/INPUT/READ with one operand: *N with N a non-negative integer is
\* accepted as Indirect(N) and a plain non-negative integer N as Direct(N);
\* '*' followed by anything else is rejected with ArgumentValueMustBeNumeric,
\* an operand starting with '=' with PureArgumentIsNotAllowed, any other
\* operand with ArgumentIsNotValid; and no accepted destination is an
\* immediate.
C27_DestinationGrammar ==
    (parsed.res /= "none" /\ OperandLine(RegisterMnemonics)) =>
       /\ IF Head(Operand) = "*"
          THEN IF NonNegativeNumeral(Tail(Operand))
               THEN Accepted(Indirect(NumeralValue(Tail(Operand))))
               ELSE Rejected(argument_value_must_be_numeric)
          ELSE IF NonNegativeNumeral(Operand)
          THEN Accepted(Direct(NumeralValue(Operand)))
          ELSE IF Head(Operand) = "="
          THEN Rejected(pure_argument_not_allowed)
          ELSE Rejected(not_valid_argument)
       /\ parsed.res = "Ok" =>
             parsed.program.instructions[1].arg.kind \in {"Direct", "Indirect"}

\* parse has rejected the immediate destination of STORE =2.
C27_Witness ==
    /\ OperandLine({<<"S", "T", "O", "R", "E">>})
    /\ Operand = <<"=", "2">>
    /\ Rejected(pure_argument_not_allowed)

\* ------------------------------------------------------------------ C28

\* The source is one line that reaches the match on the mnemonic: a valid
\* label or none, then one or two words.
DispatchLine ==
    /\ Len(lines(source)) = 1
    /\ parse_label(Trim(lines(source)[1])).ok
    /\ Len(FactsOf(source, 1)) \in {1, 2}

\* The first word of that line as the source has it, and the mnemonics.
FirstToken == FactsOf(source, 1)[1]
Mnemonics ==
    ValueMnemonics \cup LabelMnemonics \cup RegisterMnemonics \cup {HaltMnemonic}

\* C28: mnemonic dispatch.  Once parse has returned for a line of one or two
\* words: when the first word is a mnemonic in any mix of cases, the line is
\* not rejected as an unsupported opcode and an accepted line gives the opcode
\* of the mnemonic, the same for both names of an alias pair; any other first
\* word is rejected with UnsupportedOpcode carrying the word exactly as the
\* source has it.
C28_MnemonicDispatch ==
    (parsed.res /= "none" /\ DispatchLine) =>
       IF to_uppercase(FirstToken) \in Mnemonics
       THEN /\ parsed.res = "Err" => parsed.errors[1].kind.kind /= "UnsupportedOpcode"
            /\ parsed.res = "Ok" =>
                  /\ Len(parsed.program.instructions) = 1
                  /\ parsed.program.instructions[1].op =
                        (IF to_uppercase(FirstToken) = HaltMnemonic THEN "Halt"
                         ELSE OpOfMnemonic(to_uppercase(FirstToken)))
       ELSE Rejected(ParseErrorKind("UnsupportedOpcode", FirstToken))

\* ------------------------------------------------------------------ C29

\* A call of next has returned in this step.
NextReturned == StepTaken /\ ret'.call = "next" /\ ret'.res /= "Panic"

\* C29: snapshot iteration.  A call of next makes exactly one step; the item
\* it yields is the engine's program, pc, registers, line, halt flag and
\* error as that step leaves them, and it yields one exactly when the step
\* succeeds without halting; the call whose step halts the engine, by Halt or
\* by an error, returns None, and so does every call on a halted engine, so
\* that after a None every later call returns None.
C29_SnapshotIteration ==
    /\ [][NextReturned =>
            /\ ret'.from = nsteps /\ nsteps' = nsteps + 1
            /\ ret'.res \in {"Some", "None"}
            /\ ret'.res = "Some" <=> (stepRes'.res = "Ok" /\ ~halt')
            /\ ret'.res = "Some" =>
                  ret'.state = [program |-> program', registers |-> registers',
                                pc |-> pc', line |-> line', halt |-> halt',
                                error |-> error']
            /\ ret'.res = "None" <=> halt'
            /\ halt => ret'.res = "None"]_vars
    /\ []((ret.call = "next" /\ ret.res = "None") => halt)
    /\ [][halt => halt']_vars

\* The second call of next has yielded the state after the second step, in
\* which the accumulator and the pc differ from those before the step.
C29_Witness ==
    /\ ret.call = "next"
    /\ ret.res = "Some"
    /\ nsteps = 2
    /\ ret.from = 1
    /\ ret.state.pc = pc
    /\ pc = 2
    /\ ret.state.registers = registers
    /\ Reg(0) /= 0
    /\ ~halt

\* ------------------------------------------------------------------ C30

\* The program has no jump instruction.
JumpFree ==
    \A k \in 1..Len(program.instructions) : program.instructions[k].op \notin JumpOps

\* The iteration is over: the last call of next returned None on a halted
\* engine.
IterationOver == halt /\ ret.call = "next" /\ ret.res = "None"

EvalTaken == nevals' = nevals + 1 /\ ret'.call = "eval"

\* The statement is a jump that the accumulator makes a taken one.
TakenBy(stmt) ==
    \/ stmt.op = "Jump"
    \/ stmt.op = "JumpIfZero" /\ Reg(0) = 0
    \/ stmt.op = "JumpGreatherZero" /\ Reg(0) > 0

\* C31: eval leaves the program counter alone.  Whatever statement eval is
\* called with and whatever it returns, pc is after the call what it was
\* before and line is the statement's line; and when eval succeeds on a
\* statement that is no jump, or a conditional jump whose condition does not
\* hold, the address it returns is pc + 1.
C31_EvalKeepsPc ==
    [][EvalTaken =>
          /\ pc' = pc
          /\ line' = ret'.stmt.line
          /\ (ret'.res = "Ok" /\ ~TakenBy(ret'.stmt)) => ret'.addr = pc + 1]_vars

\* After one step, eval of a load has returned address 2 and left pc at 1
\* and line at the statement's line.
C31_Witness ==
    /\ ret.call = "eval"
    /\ ret.res = "Ok"
    /\ ret.stmt.op = "Load"
    /\ nsteps = 1
    /\ pc = 1
    /\ ret.addr = 2
    /\ line = 9
    /\ Reg(0) = 2

\* ------------------------------------------------------------------ C32

\* The line has a label prefix (the text before its first colon) that is no
\* valid label name.
InvalidPrefix(text) ==
    /\ split_once(Trim(text), ":").some
    /\ ~is_valid_label(split_once(Trim(text), ":").before)

\* parse has returned one error, of the kind named, for line 1.
RejectedAs(name) ==
    /\ parsed.res = "Err"
    /\ Len(parsed.errors) = 1
    /\ parsed.errors[1].kind.kind = name
    /\ parsed.errors[1].line = 1

\* C32: per-line error precedence.  Once parse has returned for a line: an
\* invalid label prefix gives LabelIsNotValid; otherwise more than two words
\* give UnsupportedSyntax, whatever the first word; otherwise a first word
\* that is no mnemonic gives UnsupportedOpcode; otherwise a mnemonic that
\* takes an operand and has none gives ArgumentIsRequired; and an invalid
\* line gives one error, never several.
C32_ErrorPrecedence ==
    (parsed.res /= "none" /\ Len(lines(source)) = 1) =>
       /\ IF InvalidPrefix(lines(source)[1])
          THEN RejectedAs("LabelIsNotValid")
          ELSE IF Len(FactsOf(source, 1)) > 2
          THEN RejectedAs("UnsupportedSyntax")
          ELSE IF /\ Len(FactsOf(source, 1)) >= 1
                  /\ to_uppercase(FactsOf(source, 1)[1]) \notin Mnemonics
          THEN RejectedAs("UnsupportedOpcode")
          ELSE IF /\ Len(FactsOf(source, 1)) = 1
                  /\ to_uppercase(FactsOf(source, 1)[1]) /= HaltMnemonic
          THEN RejectedAs("ArgumentIsRequired")
          ELSE TRUE
       /\ parsed.res = "Err" => Len(parsed.errors) = 1

\* parse has rejected the three words nop 1 2, the first no mnemonic, with
\* UnsupportedSyntax.
C32_Witness ==
    /\ Len(lines(source)) = 1
    /\ ~InvalidPrefix(lines(source)[1])
    /\ FactsOf(source, 1) = <<<<"n", "o", "p">>, <<"1">>, <<"2">>>>
    /\ RejectedAs("UnsupportedSyntax")

\* ------------------------------------------------------------------ C33

\* The name-to-LabelId table of parse after the first k lines of src.
TableAfter(src, k) ==
    ParseLoop(ParseStart, SubSeq(lines(src), 1, k), 1).label_ids

\* Line j of src refers to a label name: a jump with one operand that is a
\* label name, after a valid label prefix or none.
Refers(src, j) ==
    /\ parse_label(Trim(lines(src)[j])).ok
    /\ Len(FactsOf(src, j)) = 2
    /\ to_uppercase(FactsOf(src, j)[1]) \in LabelMnemonics
    /\ is_valid_label(FactsOf(src, j)[2])

\* The sightings of name in src, each as two times its line, plus one for a
\* reference (a line's declaration comes before its reference).
Sightings(src, name) ==
    {2 * j : j \in {i \in 1..Len(lines(src)) : Declares(src, i, name)}}
    \cup {2 * j + 1 : j \in {i \in 1..Len(lines(src)) :
                               Refers(src, i) /\ FactsOf(src, i)[2] = name}}

\* The first sighting of a name that has one.
FirstSighting(src, name) ==
    CHOOSE t \in Sightings(src, name) : \A u \in Sightings(src, name) : t <= u

\* The names sighted in the first k lines of src.
NamesSeen(src, k) ==
    {parse_label(Trim(lines(src)[j])).label :
        j \in {i \in 1..k : parse_label(Trim(lines(src)[i])).some}}
    \cup {FactsOf(src, j)[2] : j \in {i \in 1..k : Refers(src, i)}}

\* C33: label id allocation.  When parse has returned, the table it had after
\* any prefix of the lines of the source held the names sighted so far, by
\* declaration or by jump reference, and no other; the ids are pairwise
\* different and are 0 .. n-1 for the n names; a name sighted first before
\* another has the smaller id; and the table after one more line gives
\* every name it already held the same id.
C33_LabelIdAllocation ==
    parsed.res /= "none" =>
    \A k \in 0..Len(lines(source)) :
       /\ DOMAIN TableAfter(source, k) = NamesSeen(source, k)
       /\ {TableAfter(source, k)[name] : name \in NamesSeen(source, k)}
             = 0..(Cardinality(NamesSeen(source, k)) - 1)
       /\ \A a, b \in NamesSeen(source, k) :
             /\ a /= b => TableAfter(source, k)[a] /= TableAfter(source, k)[b]
             /\ FirstSighting(source, a) < FirstSighting(source, b) =>
                   TableAfter(source, k)[a] < TableAfter(source, k)[b]
       /\ k > 0 =>
             \A name \in NamesSeen(source, k - 1) :
                TableAfter(source, k)[name] = TableAfter(source, k - 1)[name]

\* A parsed source of three lines in which c is sighted first, by a
\* reference, then b by a declaration and a by a reference on the same line,
\* then a again by its declaration: the ids are 0, 1 and 2 in that order.
C33_Witness ==
    /\ parsed.res = "Ok"
    /\ mode = "unbuilt"
    /\ Len(lines(source)) = 3
    /\ NamesSeen(source, 1) = {<<"c">>}
    /\ NamesSeen(source, 2) = {<<"a">>, <<"b">>, <<"c">>}
    /\ Declares(source, 3, <<"a">>)
    /\ TableAfter(source, 3)
          = [name \in {<<"a">>, <<"b">>, <<"c">>} |->
                IF name = <<"c">> THEN 0 ELSE IF name = <<"b">> THEN 1 ELSE 2]

\* ------------------------------------------------------------------ C34

\* C34: a recorded error implies a halted engine.  In every state an engine
\* reaches from new() by calls of step, run, eval and next, in any order, an
\* error is recorded only if halt is set; a running engine has none.
C34_ErrorImpliesHalted ==
    (mode \in {"idle", "run"} /\ error /= NoError) => halt

\* A step has failed with DivisionByZero and an eval called afterwards has
\* succeeded: the error is still recorded and the engine still halted.
C34_Witness ==
    /\ error.kind = "DivisionByZero"
    /\ halt
    /\ nsteps = 1
    /\ ret.call = "eval"
    /\ ret.res = "Ok"
    /\ ret.stmt.op = "Load"

\* ------------------------------------------------------------------ C35

\* A call of run() is in its loop, found the engine halted when it was made
\* and has made no step: halt is set only by a step, and none was counted.
RunOnHalted == mode = "run" /\ halt /\ nsteps = ret.from

\* C35: run on a halted engine.  Entering run changes nothing of the engine;
\* a run that finds the engine halted makes no step, leaves program,
\* registers, pc, line, halt flag, recorded error, input and output as they
\* are and returns Ok, whether a Halt or a runtime error halted the engine.
C35_RunOnHalted ==
    /\ [][(mode = "idle" /\ mode' = "run") =>
             UNCHANGED <<engineVars, nsteps>>]_vars
    /\ [][RunOnHalted =>
             /\ UNCHANGED <<engineVars, nsteps>>
             /\ mode' = "idle"
             /\ ret'.call = "run"
             /\ ret'.res = "Ok"]_vars

\* A second run after a run that failed with DivisionByZero has returned Ok
\* without a step; the error of the first is still recorded.
C35_Witness ==
    /\ mode = "idle"
    /\ ret.call = "run"
    /\ ret.res = "Ok"
    /\ ret.from = nsteps
    /\ nsteps = 1
    /\ halt
    /\ cause = "error"
    /\ error.kind = "DivisionByZero"

\* ------------------------------------------------------------------ C36

\* C36: eval has no halted guard.  A call of eval never returns Halted; on a
\* halted engine a load still assigns the accumulator and an output still
\* writes once the write goes through; and an eval that fails leaves the
\* halt flag and the recorded error as they were.
C36_EvalUnguarded ==
    [][EvalTaken =>
          /\ ret'.err.kind /= "Halted"
          /\ (halt /\ ret'.stmt.op = "Load" /\ ret'.res /= "Panic") =>
                (ret'.res = "Ok" /\ registers'[0] = ret'.stmt.arg.n)
          /\ (halt /\ ret'.stmt.op = "Output" /\ ret'.res = "Ok") =>
                output' = output \o ToDecimal(Reg(0))
          /\ ret'.res = "Err" => (halt' = halt /\ error' = error)]_vars

\* The engine halted at a Halt with the accumulator at 0; eval of a load
\* called afterwards has succeeded and set the accumulator to 2.
C36_Witness ==
    /\ halt
    /\ cause = "Halt"
    /\ error = NoError
    /\ ret.call = "eval"
    /\ ret.res = "Ok"
    /\ ret.stmt.op = "Load"
    /\ Reg(0) = 2

\* An eval has failed on an engine that is not halted and has no error
\* recorded.
C36_FailingEval ==
    /\ ~halt
    /\ error = NoError
    /\ ret.call = "eval"
    /\ ret.res = "Err"

\* ------------------------------------------------------------------ C37

\* The step at hand executes an Input instruction whose destination resolves
\* while the input stream is at its end, and the reader reports the end
\* rather than a failure of its own.
InputAtEnd ==
    /\ InputStep
    /\ input = <<>>
    /\ DestResolvable(CurrentStmt.arg)
    /\ ~(stepRes'.res = "Err" /\ stepRes'.err.kind = "IOError")

\* C37: end of input.  Input(r) with a destination that resolves, executed
\* when the stream has no line left, fails with InvalidInput carrying the
\* empty text; the error is recorded, every register keeps its value, the
\* stream stays empty, pc stays and the engine halts.
C37_EndOfInput ==
    [][InputAtEnd =>
          /\ stepRes'.res = "Err"
          /\ stepRes'.err = [kind |-> "InvalidInput", line |-> CurrentStmt.line,
                              text |-> <<>>]
          /\ error' = stepRes'.err
          /\ registers' = registers
          /\ input' = <<>>
          /\ pc' = pc
          /\ halt']_vars

\* input 1 on the line 7 has stored 7; the jump back to it has met the end of
\* the stream: InvalidInput with the empty text, register 1 still 7.
C37_Witness ==
    /\ halt
    /\ cause = "error"
    /\ error = [kind |-> "InvalidInput", line |-> error.line, text |-> <<>>]
    /\ input = <<>>
    /\ InRange
    /\ CurrentStmt.op = "Input"
    /\ CurrentStmt.arg = Direct(1)
    /\ Reg(1) = 7
    /\ nsteps >= 2

\* ------------------------------------------------------------------ C38

\* The statement is a conditional jump whose condition the accumulator does
\* not meet.
Untaken(stmt) ==
    \/ stmt.op = "JumpIfZero" /\ Reg(0) /= 0
    \/ stmt.op = "JumpGreatherZero" /\ Reg(0) <= 0

\* The label of the jump is bound to no address of the program.
Unbound(stmt) == stmt.arg.n \notin DOMAIN program.labels

\* C38: a conditional jump whose condition does not hold never consults the
\* label table.  Stepped or evaluated, it succeeds and falls through to
\* pc + 1 whether or not its label is bound; and UnknownLabel comes only from
\* a jump that is taken and whose label is unbound.
C38_UntakenJump ==
    [][ /\ (StepTaken /\ ~halt /\ InRange /\ Untaken(CurrentStmt)) =>
              /\ stepRes'.res = "Ok"
              /\ pc' = pc + 1
              /\ error' = error
              /\ halt' = halt
        /\ (EvalTaken /\ Untaken(ret'.stmt)) =>
              /\ ret'.res = "Ok"
              /\ ret'.addr = pc + 1
        /\ (StepTaken /\ stepRes'.res = "Err" /\ stepRes'.err.kind = "UnknownLabel") =>
              /\ ~halt /\ InRange
              /\ TakenBy(CurrentStmt)
              /\ Unbound(CurrentStmt)
        /\ (EvalTaken /\ ret'.err.kind = "UnknownLabel") =>
              /\ TakenBy(ret'.stmt)
              /\ Unbound(ret'.stmt)
      ]_vars

\* With the accumulator at 2 and no label bound, eval of a jump-if-zero has
\* succeeded and returned pc + 1.
C38_Witness ==
    /\ ret.call = "eval"
    /\ ret.res = "Ok"
    /\ ret.stmt.op = "JumpIfZero"
    /\ Unbound(ret.stmt)
    /\ Reg(0) = 2
    /\ ret.addr = pc + 1

\* A step of a jump-if-positive to an unbound label with the accumulator at
\* zero has succeeded and moved pc to the next address.
C38_SteppedOver ==
    /\ ret.call = "step"
    /\ ret.res = "Ok"
    /\ nsteps = 1
    /\ pc = 1
    /\ Reg(0) = 0
    /\ Len(program.instructions) = 1
    /\ program.instructions[1].op = "JumpGreatherZero"
    /\ Unbound(program.instructions[1])

\* ------------------------------------------------------------------ C39

\* Every jump of the program has its label bound to an address beyond the
\* jump's own.
ForwardOnly ==
    \A k \in 1..Len(program.instructions) :
       program.instructions[k].op \in JumpOps =>
          /\ ~Unbound(program.instructions[k])
          /\ program.labels[program.instructions[k].arg.n] > k - 1

\* A call of run() made on the fresh engine is in its loop.
FreshRun == mode = "run" /\ ret.call = "run" /\ ret.from = 0

\* C39: termination of forward-only programs.  In a program whose jumps all
\* go forward every successful step moves pc to a greater address; a run on
\* the fresh engine has made at most (number of instructions + 1) steps and
\* is halted once it has made that many; and when it returns it returns from
\* a halted engine, with Ok after a Halt, or with the recorded error, which
\* is SegmentationFault when pc is past the last instruction.
C39_ForwardOnlyTerminates ==
    /\ [][(ForwardOnly /\ StepTaken /\ stepRes'.res = "Ok") => pc' > pc]_vars
    /\ [](ForwardOnly /\ FreshRun =>
            /\ nsteps <= Len(program.instructions) + 1
            /\ nsteps = Len(program.instructions) + 1 => halt)
    /\ [][(ForwardOnly /\ FreshRun /\ mode' = "idle" /\ ret'.res /= "Panic") =>
             /\ halt'
             /\ \/ /\ ret'.res = "Ok"
                   /\ cause' = "Halt"
                   /\ program.instructions[pc'].op = "Halt"
                \/ /\ ret'.res = "Err"
                   /\ cause' = "error"
                   /\ ret'.err = error'
                   /\ error'.kind \in RuntimeErrorKinds \ {"Halted"}
                   /\ (pc' >= Len(program.instructions)) =>
                         error'.kind = "SegmentationFault"
          ]_vars

\* run() on the fresh program jz L1; load =2 with L1 bound to address 1 has
\* taken the jump, loaded and failed with SegmentationFault on its third
\* step, past the last instruction.
C39_Witness ==
    /\ ForwardOnly
    /\ Len(program.instructions) = 2
    /\ program.instructions[1].op = "JumpIfZero"
    /\ mode = "idle"
    /\ ret.call = "run" /\ ret.from = 0 /\ ret.res = "Err"
    /\ nsteps = 3
    /\ pc = 2
    /\ halt
    /\ error.kind = "SegmentationFault"

\* ------------------------------------------------------------------ C40

\* The k-th statement is a Label pseudo-instruction, and one that declares an
\* id an earlier Label statement has declared.
LabelAt(k) == program.instructions[k].op = "Label"
Redeclaration(k) ==
    /\ LabelAt(k)
    /\ \E j \in 1..(k - 1) :
          LabelAt(j) /\ program.instructions[j].arg.n = program.instructions[k].arg.n

\* The first statement that declares an id again.
SecondDeclaration ==
    CHOOSE k \in 1..Len(program.instructions) :
       Redeclaration(k) /\ \A j \in 1..(k - 1) : ~Redeclaration(j)

\* Program::from, or init_labels on a program whose label_ids are those of
\* its Label statements, has been called.
LabelsBuilt ==
    /\ ret.call \in {"from", "init_labels"}
    /\ program.label_ids = CollectLabelIds(program.instructions)

\* C40: init_labels rejects a re-declared label.  When two Label statements
\* carry the same id the call fails with LabelIsNotValid carrying the line
\* of the second one and the label table stays unset; otherwise the call
\* succeeds and the address bound to each label id is the index of its Label
\* statement in the instruction sequence.
C40_InitLabels ==
    LabelsBuilt =>
       IF \E k \in 1..Len(program.instructions) : Redeclaration(k)
       THEN /\ ret.res = "Err"
            /\ ret.err = InterpretError("LabelIsNotValid",
                                        program.instructions[SecondDeclaration].line)
            /\ program.labels = EmptyMap
       ELSE /\ ret.res = "Ok"
            /\ \A k \in 1..Len(program.instructions) :
                  LabelAt(k) =>
                     decode_label(program, program.instructions[k].arg.n) =
                        [some |-> TRUE, addr |-> k - 1]

====
